---------------------------- MODULE Spec2Model ----------------------------
(***************************************************************************)
(* A model of the copy-on-write B+tree key-value store: the node codec     *)
(* (b_tree/b_node.rs), the tree (b_tree/mod.rs), the free list             *)
(* (free_list/mod.rs), the pager (free_list/page_manager.rs,               *)
(* free_list/master_page.rs) and the KV facade (kv_store/mod.rs).          *)
(*                                                                         *)
(* Byte strings (keys, values) are kept run-length encoded: a sequence of  *)
(* runs <<byte, count>> with count > 0 and no two adjacent runs of the     *)
(* same byte.  Every byte string has exactly one such encoding, so         *)
(* equality of encodings is equality of byte strings; length, comparison,  *)
(* prefix and concatenation are computed on the encoding.                  *)
(*                                                                         *)
(* A tree node is kept as its decoded fields: type, the pointer array, the *)
(* offset array and the KV cells, together with the capacity of the        *)
(* buffer that holds it (actual_size).                                     *)
(***************************************************************************)
EXTENDS Integers, Sequences, FiniteSets, TLC

\* ------------------------------------------------------------------------
\* Program constants

HEADER == 4
BTREE_PAGE_SIZE == 4096
BTREE_MAX_KEY_SIZE == 1000
BTREE_MAX_VAL_SIZE == 3000
FL_NODE_TYPE == 3
FL_HEADER == 20
MAX_FREE_LIST_IN_PAGE == (BTREE_PAGE_SIZE - FL_HEADER) \div 8
NODE == 1
LEAF == 2

\* ------------------------------------------------------------------------
\* Byte strings, run-length encoded

Min(a, b) == IF a < b THEN a ELSE b
Max(a, b) == IF a < b THEN b ELSE a

\* A local binding: Op applied to val, val computed once.
With(val, Op(_)) == Op(val)

Rep(b, n) == IF n <= 0 THEN << >> ELSE << <<b, n>> >>

RECURSIVE BLen(_)
BLen(s) == IF s = << >> THEN 0 ELSE Head(s)[2] + BLen(Tail(s))

\* Concatenation, joining the runs that meet when they hold the same byte.
BCat(s, t) ==
    IF s = << >> THEN t
    ELSE IF t = << >> THEN s
    ELSE IF s[Len(s)][1] = t[1][1]
         THEN SubSeq(s, 1, Len(s) - 1)
                \o << <<t[1][1], s[Len(s)][2] + t[1][2]>> >>
                \o Tail(t)
         ELSE s \o t

\* The first m bytes of s (all of s when it is shorter).
RECURSIVE BTake(_, _)
BTake(s, m) ==
    IF m <= 0 \/ s = << >> THEN << >>
    ELSE IF Head(s)[2] >= m THEN << <<Head(s)[1], m>> >>
    ELSE << Head(s) >> \o BTake(Tail(s), m - Head(s)[2])

\* Vec<u8>::cmp: lexicographic byte order; -1, 0 or 1.
RECURSIVE BCmp(_, _)
BCmp(s, t) ==
    IF s = << >> THEN (IF t = << >> THEN 0 ELSE -1)
    ELSE IF t = << >> THEN 1
    ELSE LET a == Head(s)
             c == Head(t)
         IN IF a[1] < c[1] THEN -1
            ELSE IF a[1] > c[1] THEN 1
            ELSE IF a[2] = c[2] THEN BCmp(Tail(s), Tail(t))
            ELSE IF a[2] < c[2]
                 THEN BCmp(Tail(s), << <<c[1], c[2] - a[2]>> >> \o Tail(t))
                 ELSE BCmp(<< <<a[1], a[2] - c[2]>> >> \o Tail(s), Tail(t))

\* ------------------------------------------------------------------------
\* Node codec (b_node.rs)

new_with_size(b_type, n, size) ==
    [type |-> b_type, cap |-> size,
     ptr |-> [i \in 1..n |-> 0],
     off |-> [i \in 1..n |-> 0],
     key |-> [i \in 1..n |-> << >>],
     val |-> [i \in 1..n |-> << >>]]

new(b_type, n) == new_with_size(b_type, n, BTREE_PAGE_SIZE)

num_keys(node) == Len(node.ptr)

get_ptr(node, idx) == node.ptr[idx + 1]

get_offset(node, idx) == IF idx = 0 THEN 0 ELSE node.off[idx]

kv_pos(node, idx) == HEADER + 10 * num_keys(node) + get_offset(node, idx)

get_key(node, idx) == node.key[idx + 1]

get_val(node, idx) == node.val[idx + 1]

num_bytes(node) == kv_pos(node, num_keys(node))

\* The assertion inside num_bytes: the node fits the buffer that holds it.
num_bytes_ok(node) == num_bytes(node) <= node.cap

resize_buffer(node, new_size) == [node EXCEPT !.cap = new_size]

\* A search that takes only the keys below `key`.
RECURSIVE lookup_loop_below(_, _, _, _, _)
lookup_loop_below(node, key, low, high, found) ==
    IF low > high THEN found
    ELSE LET mid == (low + high) \div 2
         IN IF BCmp(get_key(node, mid), key) < 0
            THEN lookup_loop_below(node, key, mid + 1, high, mid)
            ELSE lookup_loop_below(node, key, low, Max(mid - 1, 0), found)

\* The binary search of node_lookup_le; index 0 is never compared.
RECURSIVE lookup_loop(_, _, _, _, _)
lookup_loop(node, key, low, high, found) ==
    IF low > high THEN found
    ELSE LET mid == (low + high) \div 2
         IN IF BCmp(get_key(node, mid), key) <= 0
            THEN lookup_loop(node, key, mid + 1, high, mid)
            ELSE lookup_loop(node, key, low, Max(mid - 1, 0), found)

\* num_keys() - 1 underflows on a node without keys; the callers test
\* lookup_ok first.
lookup_ok(node) == num_keys(node) >= 1

node_lookup_le(node, key) ==
    lookup_loop(node, key, 1, num_keys(node) - 1, 0)

node_append_kv(node, idx, ptr, key, val) ==
    [node EXCEPT !.ptr[idx + 1] = ptr,
                 !.key[idx + 1] = key,
                 !.val[idx + 1] = val,
                 !.off[idx + 1] = get_offset(node, idx) + 4 + BLen(key) + BLen(val)]

node_append_range(node, old, dst_new, src_old, n) ==
    IF n = 0 THEN node
    ELSE LET dst_begin == get_offset(node, dst_new)
             src_begin == get_offset(old, src_old)
         IN [node EXCEPT
               !.ptr = [i \in 1..Len(node.ptr) |->
                          IF i > dst_new /\ i <= dst_new + n
                          THEN old.ptr[src_old + (i - dst_new)]
                          ELSE node.ptr[i]],
               !.off = [i \in 1..Len(node.off) |->
                          IF i > dst_new /\ i <= dst_new + n
                          THEN dst_begin + get_offset(old, src_old + (i - dst_new)) - src_begin
                          ELSE node.off[i]],
               !.key = [i \in 1..Len(node.key) |->
                          IF i > dst_new /\ i <= dst_new + n
                          THEN old.key[src_old + (i - dst_new)]
                          ELSE node.key[i]],
               !.val = [i \in 1..Len(node.val) |->
                          IF i > dst_new /\ i <= dst_new + n
                          THEN old.val[src_old + (i - dst_new)]
                          ELSE node.val[i]]]

leaf_insert(old, idx, key, val) ==
    LET n == num_keys(old)
        a == new_with_size(LEAF, n + 1, 2 * BTREE_PAGE_SIZE)
        b == node_append_range(a, old, 0, 0, idx)
        c == node_append_kv(b, idx, 0, key, val)
    IN node_append_range(c, old, idx + 1, idx, n - idx)

leaf_update(old, idx, key, val) ==
    LET n == num_keys(old)
        a == new_with_size(LEAF, n, 2 * BTREE_PAGE_SIZE)
        b == node_append_range(a, old, 0, 0, idx)
        c == node_append_kv(b, idx, 0, key, val)
    IN node_append_range(c, old, idx + 1, idx + 1, n - idx - 1)

\* leaf_delete that drops the cell before idx.
leaf_delete_before(old, idx) ==
    LET n == num_keys(old)
        a == new(LEAF, n - 1)
        b == node_append_range(a, old, 0, 0, idx - 1)
    IN node_append_range(b, old, idx - 1, idx, n - idx)

leaf_delete(old, idx) ==
    LET n == num_keys(old)
        a == new(LEAF, n - 1)
        b == node_append_range(a, old, 0, 0, idx)
    IN node_append_range(b, old, idx, idx + 1, n - idx - 1)

node_merge(left, right) ==
    LET ln == num_keys(left)
        rn == num_keys(right)
        a == new(left.type, ln + rn)
        b == node_append_range(a, left, 0, 0, ln)
    IN node_append_range(b, right, ln, 0, rn)

node_replace_2_kid(old, idx, ptr, key) ==
    LET n == num_keys(old)
        a == new(NODE, n - 1)
        b == node_append_range(a, old, 0, 0, idx)
        c == node_append_kv(b, idx, ptr, key, << >>)
    IN node_append_range(c, old, idx + 1, idx + 2, n - idx - 2)


\* split2: the split point, found as the code finds it.  calc_left counts
\* the bytes of a node made of the first n_left cells.
calc_num_left_bytes(old, n_left) == HEADER + 10 * n_left + get_offset(old, n_left)

calc_num_right_bytes(old, n_left) ==
    num_bytes(old) - calc_num_left_bytes(old, n_left) + HEADER

RECURSIVE split_down(_, _)
split_down(old, n_left) ==
    IF calc_num_left_bytes(old, n_left) > BTREE_PAGE_SIZE
    THEN split_down(old, n_left - 1)
    ELSE n_left

\* split2 without the loop that makes the right half fit.
split_up_skipped(old, n_left) == n_left

\* Stops at num_keys + 1, where get_offset's assertion fails.
RECURSIVE split_up(_, _)
split_up(old, n_left) ==
    IF n_left > num_keys(old) THEN n_left
    ELSE IF calc_num_right_bytes(old, n_left) > BTREE_PAGE_SIZE
    THEN split_up(old, n_left + 1)
    ELSE n_left

\* [panic, left, right]; panic stands for a failed assertion.
split2(old, left_size) ==
    With(split_down(old, num_keys(old) \div 2), LAMBDA down :
    With(split_up(old, down), LAMBDA up :
      IF \/ num_keys(old) < 2
         \/ down < 1
         \/ ~num_bytes_ok(old)
         \/ up >= num_keys(old)
      THEN [panic |-> TRUE, left |-> old, right |-> old]
      ELSE With(node_append_range(
                  new_with_size(old.type, num_keys(old) - up, BTREE_PAGE_SIZE),
                  old, 0, up, num_keys(old) - up), LAMBDA right :
             [panic |-> num_bytes(right) > BTREE_PAGE_SIZE,
              left |-> node_append_range(new_with_size(old.type, up, left_size),
                                         old, 0, 0, up),
              right |-> right])))

\* [panic, nodes]: 1 to 3 nodes.
split3(node) ==
    IF ~num_bytes_ok(node) THEN [panic |-> TRUE, nodes |-> << >>]
    ELSE IF num_bytes(node) <= BTREE_PAGE_SIZE
    THEN [panic |-> FALSE, nodes |-> << resize_buffer(node, BTREE_PAGE_SIZE) >>]
    ELSE With(split2(node, 2 * BTREE_PAGE_SIZE), LAMBDA s :
           IF s.panic THEN [panic |-> TRUE, nodes |-> << >>]
           ELSE IF num_bytes(s.left) <= BTREE_PAGE_SIZE
           THEN [panic |-> FALSE,
                 nodes |-> << resize_buffer(s.left, BTREE_PAGE_SIZE), s.right >>]
           ELSE With(split2(s.left, BTREE_PAGE_SIZE), LAMBDA t :
                  IF t.panic \/ ~num_bytes_ok(t.left)
                  THEN [panic |-> TRUE, nodes |-> << >>]
                  ELSE [panic |-> FALSE, nodes |-> << t.left, t.right, s.right >>]))

\* get_data followed by BNode::from: the first BTREE_PAGE_SIZE bytes of the
\* buffer, read back with every byte behind them zero.  The header, the
\* pointers and the offsets lie in front of the cells; a cell that crosses
\* the page end loses its tail.
cut_klen(p, klen) ==
    IF p + 2 <= BTREE_PAGE_SIZE THEN klen
    ELSE IF p + 1 = BTREE_PAGE_SIZE THEN klen % 256
    ELSE 0

cut_vlen(p, vlen) ==
    IF p + 4 <= BTREE_PAGE_SIZE THEN vlen
    ELSE IF p + 3 = BTREE_PAGE_SIZE THEN vlen % 256
    ELSE 0

\* n bytes read at position pos, where `bytes` is what the buffer held there.
cut_bytes(pos, bytes, n) ==
    LET kept == BTake(bytes, Min(n, Max(0, BTREE_PAGE_SIZE - pos)))
    IN BCat(kept, Rep(0, n - BLen(kept)))

get_data(node) ==
    [node EXCEPT
       !.cap = BTREE_PAGE_SIZE,
       !.key = [i \in 1..Len(node.key) |->
                  LET p == kv_pos(node, i - 1)
                  IN cut_bytes(p + 4, node.key[i], cut_klen(p, BLen(node.key[i])))],
       !.val = [i \in 1..Len(node.val) |->
                  LET p == kv_pos(node, i - 1)
                      klen == BLen(node.key[i])
                  IN IF cut_klen(p, klen) = klen
                     THEN cut_bytes(p + 4 + klen, node.val[i],
                                    cut_vlen(p, BLen(node.val[i])))
                     ELSE Rep(0, cut_vlen(p, BLen(node.val[i])))]]

\* ------------------------------------------------------------------------
\* Pages.  A page holds a tree node (type 1 or 2), a free-list node (type
\* 3), the master record, or zeros (a page of a file that was extended and
\* never written).

ZeroPage == [type |-> 0]
\* sig: the 16 signature bytes equal DB_SIG.
MasterRec(root, used, fl_head) ==
    [type |-> 16, sig |-> TRUE, btree_root |-> root,
     total_used_pages |-> used, free_list_head |-> fl_head]
\* updates: the entry of a deallocated page (None).
NonePage == [type |-> 9]
\* A read behind the end of the file.
NoPage == [type |-> 8]

FLNode(size, next) ==
    [type |-> FL_NODE_TYPE, size |-> size, total |-> 0, next |-> next,
     ptrs |-> [i \in 1..size |-> 0]]

\* The in-memory state of the store with the file it maps:
\*   pages    the file (and its map), page number -> page
\*   updates  PageManager.updates
\*   nfree    FreeList.nfree        head    FreeList.head
\*   nappend  PageManager.nappend   flushed PageManager.flushed
\*   panic    an assertion failed, or an unwrap or a read did
Machine(pages, updates, nfree, nappend, flushed, head) ==
    [pages |-> pages, updates |-> updates, nfree |-> nfree, nappend |-> nappend,
     flushed |-> flushed, head |-> head, panic |-> FALSE]

Panic(M) == [M EXCEPT !.panic = TRUE]

\* PageManager::page_get before decoding.
page_get(M, ptr) ==
    IF ptr \in DOMAIN M.updates THEN M.updates[ptr]
    ELSE IF ptr \in DOMAIN M.pages THEN M.pages[ptr]
    ELSE NoPage

IsBNode(page) == page.type \in {NODE, LEAF}
IsFLNode(page) == page.type = FL_NODE_TYPE

Put(f, k, v) == [x \in DOMAIN f \cup {k} |-> IF x = k THEN v ELSE f[x]]

\* page_del that forgets the page.
page_del_skipped(M, ptr) == M

page_del(M, ptr) == [M EXCEPT !.updates = Put(M.updates, ptr, NonePage)]

page_reuse(M, ptr, node) == [M EXCEPT !.updates = Put(M.updates, ptr, node)]

\* [M, ptr]
page_append(M, node) ==
    [M |-> [M EXCEPT !.updates = Put(M.updates, M.flushed + M.nappend, node),
                     !.nappend = M.nappend + 1],
     ptr |-> M.flushed + M.nappend]

\* ------------------------------------------------------------------------
\* Free list (free_list/mod.rs)

total_ok(M) == M.head = 0 \/ IsFLNode(page_get(M, M.head))

total(M) == IF M.head = 0 THEN 0 ELSE page_get(M, M.head).total

\* The walk of FreeList::get from the node at `ptr`; [ok, ptr].
RECURSIVE get_walk(_, _, _)
get_walk(M, at, topn) ==
    LET node == page_get(M, at)
    IN IF ~IsFLNode(node) THEN [ok |-> FALSE, ptr |-> 0]
       ELSE IF node.size <= topn
       THEN IF node.next = 0 THEN [ok |-> FALSE, ptr |-> 0]
            ELSE get_walk(M, node.next, topn - node.size)
       ELSE [ok |-> TRUE, ptr |-> node.ptrs[node.size - topn]]

get(M, topn) ==
    IF ~total_ok(M) \/ ~(0 <= topn /\ topn < total(M)) \/ M.head = 0
    THEN [ok |-> FALSE, ptr |-> 0]
    ELSE get_walk(M, M.head, topn)

\* page_new that takes no page from the list.
page_new_appending(M, node) ==
    IF M.panic \/ ~total_ok(M) \/ node.cap # BTREE_PAGE_SIZE
    THEN [M |-> Panic(M), ptr |-> 0]
    ELSE [M |-> [M EXCEPT !.updates = Put(M.updates, M.flushed + M.nappend,
                                          get_data(node)),
                          !.nappend = M.nappend + 1],
          ptr |-> M.flushed + M.nappend]

\* [M, ptr]
page_new(M, node) ==
    IF M.panic \/ ~total_ok(M) \/ node.cap # BTREE_PAGE_SIZE
    THEN [M |-> Panic(M), ptr |-> 0]
    ELSE IF M.nfree < total(M)
    THEN With(get(M, M.nfree), LAMBDA g :
           IF ~g.ok THEN [M |-> Panic(M), ptr |-> 0]
           ELSE [M |-> [M EXCEPT !.updates = Put(M.updates, g.ptr, get_data(node)),
                                 !.nfree = M.nfree + 1],
                 ptr |-> g.ptr])
    ELSE [M |-> [M EXCEPT !.updates = Put(M.updates, M.flushed + M.nappend,
                                          get_data(node)),
                          !.nappend = M.nappend + 1],
          ptr |-> M.flushed + M.nappend]

\* The inner loop of phase 2: pointers of the node taken for reuse, from its
\* end, while more list pages are needed; [remain, reuse].
RECURSIVE reuse_loop(_, _, _, _)
reuse_loop(node, remain, reuse, nfreed) ==
    IF remain > 0 /\ Len(reuse) * MAX_FREE_LIST_IN_PAGE < nfreed
    THEN reuse_loop(node, remain - 1, Append(reuse, node.ptrs[remain]), nfreed)
    ELSE [remain |-> remain, reuse |-> reuse]

\* The loop of update over the head nodes.  W = [head, popn, freed, reuse,
\* total, panic].
RECURSIVE update_loop(_, _)
update_loop(M, W) ==
    IF W.head = 0 \/ ~(Len(W.reuse) * MAX_FREE_LIST_IN_PAGE < Len(W.freed)) THEN W
    ELSE With(page_get(M, W.head), LAMBDA node :
         With(Append(W.freed, W.head), LAMBDA freed1 :
           IF ~IsFLNode(node) THEN [W EXCEPT !.panic = TRUE]
           ELSE IF W.popn >= node.size
           THEN update_loop(M, [W EXCEPT !.freed = freed1,
                                         !.popn = W.popn - node.size,
                                         !.total = W.total - node.size,
                                         !.head = node.next])
           ELSE With(reuse_loop(node, node.size - W.popn, W.reuse, Len(freed1)),
                     LAMBDA r :
                  update_loop(M, [W EXCEPT
                      !.freed = freed1 \o [i \in 1..r.remain |-> node.ptrs[i]],
                      !.reuse = r.reuse,
                      !.popn = 0,
                      !.total = W.total - node.size,
                      !.head = node.next]))))

RECURSIVE push(_, _, _)
push(M, freed_ptrs, reuse) ==
    IF freed_ptrs = << >>
    THEN (IF reuse = << >> THEN M ELSE Panic(M))
    ELSE With(Min(Len(freed_ptrs), MAX_FREE_LIST_IN_PAGE), LAMBDA size :
         With([FLNode(size, M.head) EXCEPT !.ptrs = SubSeq(freed_ptrs, 1, size)],
              LAMBDA new_node :
         With(SubSeq(freed_ptrs, size + 1, Len(freed_ptrs)), LAMBDA rest :
           IF reuse # << >>
           THEN push([page_reuse(M, Head(reuse), new_node) EXCEPT !.head = Head(reuse)],
                     rest, Tail(reuse))
           ELSE With(page_append(M, new_node), LAMBDA a :
                  push([a.M EXCEPT !.head = a.ptr], rest, reuse)))))

\* FLNode::set_total on the bytes page_get_raw_mut returns: bytes 4..12 of
\* the page, whatever the page holds.
set_total_bytes(page, new_total) ==
    IF IsFLNode(page) THEN [page EXCEPT !.total = new_total]
    ELSE IF IsBNode(page)
    THEN (IF Len(page.ptr) >= 1 THEN [page EXCEPT !.ptr[1] = new_total] ELSE page)
    ELSE IF page.type = 16 THEN [page EXCEPT !.sig = FALSE]
    ELSE [type |-> 0, junk |-> new_total]

\* update without its last step: the head's total field is left as it is.
set_total_skipped(M, new_total) == M

set_total(M, new_total) ==
    IF M.head \in DOMAIN M.updates
    THEN IF M.updates[M.head] = NonePage THEN Panic(M)
         ELSE [M EXCEPT !.updates[M.head] = set_total_bytes(@, new_total)]
    ELSE IF M.head \in DOMAIN M.pages
    THEN [M EXCEPT !.pages[M.head] = set_total_bytes(@, new_total)]
    ELSE Panic(M)

\* update that adds to the total the length freed_ptrs had on entry.
update_entry_count(M, popn, freed_ptrs) ==
    IF M.panic \/ ~total_ok(M) THEN Panic(M)
    ELSE IF popn > total(M) THEN Panic(M)
    ELSE IF popn = 0 /\ freed_ptrs = << >> THEN M
    ELSE With(update_loop(M, [head |-> M.head, popn |-> popn,
                                  freed |-> freed_ptrs, reuse |-> << >>,
                                  total |-> total(M), panic |-> FALSE]), LAMBDA W :
           IF W.panic THEN Panic(M)
           ELSE IF ~(Len(W.reuse) * MAX_FREE_LIST_IN_PAGE >= Len(W.freed) \/ W.head = 0)
           THEN Panic(M)
           ELSE With(push([M EXCEPT !.head = W.head], W.freed, W.reuse), LAMBDA P :
                  IF P.panic THEN P
                  ELSE set_total(P, W.total + Len(freed_ptrs))))

update(M, popn, freed_ptrs) ==
    IF M.panic \/ ~total_ok(M) THEN Panic(M)
    ELSE IF popn > total(M) THEN Panic(M)
    ELSE IF popn = 0 /\ freed_ptrs = << >> THEN M
    ELSE With(update_loop(M, [head |-> M.head, popn |-> popn,
                                  freed |-> freed_ptrs, reuse |-> << >>,
                                  total |-> total(M), panic |-> FALSE]), LAMBDA W :
           IF W.panic THEN Panic(M)
           ELSE IF ~(Len(W.reuse) * MAX_FREE_LIST_IN_PAGE >= Len(W.freed) \/ W.head = 0)
           THEN Panic(M)
           ELSE With(push([M EXCEPT !.head = W.head], W.freed, W.reuse), LAMBDA P :
                  IF P.panic THEN P
                  ELSE set_total(P, W.total + Len(W.freed))))

\* ------------------------------------------------------------------------
\* B+tree (b_tree/mod.rs).  Every operator takes the machine M and returns
\* it with the pages it allocated and freed.

\* [M, node]: the old node with the kid at idx replaced by the new children,
\* each allocated in turn.
RECURSIVE replace_kids(_, _, _, _)
replace_kids(M, node, at, kids) ==
    IF kids = << >> \/ M.panic THEN [M |-> M, node |-> node]
    ELSE IF num_keys(Head(kids)) < 1 THEN [M |-> Panic(M), node |-> node]
    ELSE With(page_new(M, Head(kids)), LAMBDA a :
           replace_kids(a.M,
                        node_append_kv(node, at, a.ptr, get_key(Head(kids), 0), << >>),
                        at + 1, Tail(kids)))

node_replace_kid_n(M, new_node_size, old_node, idx, new_children) ==
    With(replace_kids(M,
                      node_append_range(
                        new_with_size(NODE, num_keys(old_node) - 1 + Len(new_children),
                                      new_node_size),
                        old_node, 0, 0, idx),
                      idx, new_children), LAMBDA c :
      IF c.M.panic THEN c
      ELSE [M |-> c.M,
            node |-> node_append_range(c.node, old_node, idx + Len(new_children),
                                       idx + 1, num_keys(old_node) - (idx + 1))])

\* A result without a node (None).
NoNode(M) == [M |-> M, some |-> FALSE, node |-> ZeroPage, added |-> FALSE]

RECURSIVE tree_insert(_, _, _)
RECURSIVE node_insert(_, _, _, _)

\* tree_insert without the comparison of the stored value with the new one:
\* a matching key is always rewritten.
tree_insert_unelided(M, node, request) ==
    IF ~lookup_ok(node) THEN NoNode(Panic(M))
    ELSE With(node_lookup_le(node, request.key), LAMBDA idx :
           IF node.type = LEAF
           THEN IF BCmp(get_key(node, idx), request.key) = 0
                THEN IF request.mode = "InsertOnly" THEN NoNode(M)
                     ELSE [M |-> M, some |-> TRUE, added |-> FALSE,
                           node |-> leaf_update(node, idx, request.key, request.val)]
                ELSE IF request.mode = "UpdateOnly" THEN NoNode(M)
                     ELSE [M |-> M, some |-> TRUE, added |-> TRUE,
                           node |-> leaf_insert(node, idx + 1, request.key, request.val)]
           ELSE node_insert(M, node, idx, request))

\* request = [key, val, mode]; the result carries `added`.
tree_insert(M, node, request) ==
    IF ~lookup_ok(node) THEN NoNode(Panic(M))
    ELSE With(node_lookup_le(node, request.key), LAMBDA idx :
           IF node.type = LEAF
           THEN IF BCmp(get_key(node, idx), request.key) = 0
                THEN IF request.mode = "InsertOnly" THEN NoNode(M)
                     ELSE IF BCmp(get_val(node, idx), request.val) = 0 THEN NoNode(M)
                     ELSE [M |-> M, some |-> TRUE, added |-> FALSE,
                           node |-> leaf_update(node, idx, request.key, request.val)]
                ELSE IF request.mode = "UpdateOnly" THEN NoNode(M)
                     ELSE [M |-> M, some |-> TRUE, added |-> TRUE,
                           node |-> leaf_insert(node, idx + 1, request.key, request.val)]
           ELSE node_insert(M, node, idx, request))

node_insert(M, node, idx, request) ==
    With(page_get(M, get_ptr(node, idx)), LAMBDA kid_node :
      IF ~IsBNode(kid_node) THEN NoNode(Panic(M))
      ELSE With(tree_insert(M, kid_node, request), LAMBDA r :
             IF r.M.panic \/ ~r.some THEN r
             ELSE With(split3(r.node), LAMBDA s :
                  With(page_del(r.M, get_ptr(node, idx)), LAMBDA d :
                    IF s.panic THEN NoNode(Panic(d))
                    ELSE With(node_replace_kid_n(d, 2 * BTREE_PAGE_SIZE, node, idx,
                                                 s.nodes), LAMBDA n :
                           [M |-> n.M, some |-> TRUE, added |-> r.added,
                            node |-> n.node])))))

\* should_merge that asks the right sibling first.
should_merge_right_first(M, node, idx, updated) ==
    IF ~num_bytes_ok(updated)
    THEN [dir |-> "None", sibling |-> updated, panic |-> TRUE]
    ELSE IF num_bytes(updated) > BTREE_PAGE_SIZE \div 4
    THEN [dir |-> "None", sibling |-> updated, panic |-> FALSE]
    ELSE With(page_get(M, get_ptr(node, idx - 1)), LAMBDA left :
         With(page_get(M, get_ptr(node, idx + 1)), LAMBDA right :
           IF /\ idx + 1 < num_keys(node)
              /\ IsBNode(right) /\ num_bytes_ok(right)
              /\ num_bytes(right) + num_bytes(updated) - HEADER <= BTREE_PAGE_SIZE
           THEN [dir |-> "Right", sibling |-> right, panic |-> FALSE]
           ELSE IF /\ idx > 0
                   /\ IsBNode(left) /\ num_bytes_ok(left)
                   /\ num_bytes(left) + num_bytes(updated) - HEADER <= BTREE_PAGE_SIZE
           THEN [dir |-> "Left", sibling |-> left, panic |-> FALSE]
           ELSE [dir |-> "None", sibling |-> updated, panic |-> FALSE]))

\* [dir, sibling, panic]
should_merge(M, node, idx, updated) ==
    IF ~num_bytes_ok(updated)
    THEN [dir |-> "None", sibling |-> updated, panic |-> TRUE]
    ELSE IF num_bytes(updated) > BTREE_PAGE_SIZE \div 4
    THEN [dir |-> "None", sibling |-> updated, panic |-> FALSE]
    ELSE With(page_get(M, get_ptr(node, idx - 1)), LAMBDA left :
         With(page_get(M, get_ptr(node, idx + 1)), LAMBDA right :
           IF idx > 0 /\ (~IsBNode(left) \/ ~num_bytes_ok(left))
           THEN [dir |-> "None", sibling |-> updated, panic |-> TRUE]
           ELSE IF idx > 0 /\ num_bytes(left) + num_bytes(updated) - HEADER
                                <= BTREE_PAGE_SIZE
           THEN [dir |-> "Left", sibling |-> left, panic |-> FALSE]
           ELSE IF idx + 1 < num_keys(node)
                   /\ (~IsBNode(right) \/ ~num_bytes_ok(right))
           THEN [dir |-> "None", sibling |-> updated, panic |-> TRUE]
           ELSE IF idx + 1 < num_keys(node)
                   /\ num_bytes(right) + num_bytes(updated) - HEADER <= BTREE_PAGE_SIZE
           THEN [dir |-> "Right", sibling |-> right, panic |-> FALSE]
           ELSE [dir |-> "None", sibling |-> updated, panic |-> FALSE]))

RECURSIVE tree_delete(_, _, _)
RECURSIVE node_delete(_, _, _, _)

tree_delete(M, node, key) ==
    IF ~lookup_ok(node) THEN NoNode(Panic(M))
    ELSE With(node_lookup_le(node, key), LAMBDA idx :
           IF node.type = LEAF
           THEN IF BCmp(get_key(node, idx), key) = 0
                THEN [M |-> M, some |-> TRUE, added |-> FALSE,
                      node |-> leaf_delete(node, idx)]
                ELSE NoNode(M)
           ELSE node_delete(M, node, idx, key))

\* merge_kids without the page_del of the sibling's page.
merge_kids_kept(M, node, idx, gone, merged) ==
    IF num_keys(merged) < 1 THEN NoNode(Panic(M))
    ELSE With(page_new(M, merged), LAMBDA a :
           [M |-> a.M, some |-> TRUE, added |-> FALSE,
            node |-> node_replace_2_kid(node, idx, a.ptr, get_key(merged, 0))])

\* The merge of node_delete: the merged node replaces the kids at idx and
\* idx + 1 of node; gone is the sibling's page.
merge_kids(M, node, idx, gone, merged) ==
    With(page_del(M, gone), LAMBDA d2 :
      IF num_keys(merged) < 1 THEN NoNode(Panic(d2))
      ELSE With(page_new(d2, merged), LAMBDA a :
             [M |-> a.M, some |-> TRUE, added |-> FALSE,
              node |-> node_replace_2_kid(node, idx, a.ptr, get_key(merged, 0))]))

node_delete(M, node, idx, key) ==
    With(page_get(M, get_ptr(node, idx)), LAMBDA kid_node :
      IF ~IsBNode(kid_node) THEN NoNode(Panic(M))
      ELSE With(tree_delete(M, kid_node, key), LAMBDA r :
             IF r.M.panic \/ ~r.some THEN r
             ELSE With(page_del(r.M, get_ptr(node, idx)), LAMBDA d :
                  With(should_merge(d, node, idx, r.node), LAMBDA m :
                    IF m.panic THEN NoNode(Panic(d))
                    ELSE IF m.dir = "Left"
                    THEN merge_kids(d, node, idx - 1, get_ptr(node, idx - 1),
                                    node_merge(m.sibling, r.node))
                    ELSE IF m.dir = "Right"
                    THEN merge_kids(d, node, idx, get_ptr(node, idx + 1),
                                    node_merge(r.node, m.sibling))
                    ELSE IF num_keys(r.node) = 0
                    THEN IF num_keys(node) = 1 /\ idx = 0
                         THEN [M |-> d, some |-> TRUE, added |-> FALSE,
                               node |-> new(NODE, 0)]
                         ELSE NoNode(Panic(d))
                    ELSE With(node_replace_kid_n(d, BTREE_PAGE_SIZE, node, idx,
                                                 << r.node >>), LAMBDA n :
                           [M |-> n.M, some |-> TRUE, added |-> FALSE,
                            node |-> n.node])))))

\* The sizes should_merge sees at the kid idx of node once the kid became
\* updated, and what it answers: [updated, left, right, dir, panic]; -1
\* where node has no sibling on that side.  kid and gone are the pages
\* node_delete passes to page_del there (gone = 0: no sibling merged).
merge_site(M, node, idx, updated) ==
    With(should_merge(M, node, idx, updated), LAMBDA m :
      [updated |-> num_bytes(updated),
       left |-> IF idx > 0 /\ IsBNode(page_get(M, get_ptr(node, idx - 1)))
                THEN num_bytes(page_get(M, get_ptr(node, idx - 1))) ELSE -1,
       right |-> IF idx + 1 < num_keys(node)
                    /\ IsBNode(page_get(M, get_ptr(node, idx + 1)))
                 THEN num_bytes(page_get(M, get_ptr(node, idx + 1))) ELSE -1,
       dir |-> m.dir,
       panic |-> m.panic,
       kid |-> get_ptr(node, idx),
       gone |-> IF m.dir = "Left" THEN get_ptr(node, idx - 1)
                ELSE IF m.dir = "Right" THEN get_ptr(node, idx + 1)
                ELSE 0])

\* The calls of should_merge a tree_delete of key makes from node down, the
\* deepest first.
RECURSIVE merge_sites(_, _, _, _)
merge_sites(M, node, key, fuel) ==
    IF fuel = 0 \/ ~IsBNode(node) \/ ~lookup_ok(node) \/ node.type = LEAF THEN << >>
    ELSE With(node_lookup_le(node, key), LAMBDA idx :
         With(page_get(M, get_ptr(node, idx)), LAMBDA kid_node :
           IF ~IsBNode(kid_node) THEN << >>
           ELSE With(tree_delete(M, kid_node, key), LAMBDA r :
                  IF r.M.panic \/ ~r.some THEN << >>
                  ELSE Append(merge_sites(M, kid_node, key, fuel - 1),
                              merge_site(page_del(r.M, get_ptr(node, idx)), node, idx,
                                         r.node)))))

\* The arguments insert_exec and delete assert.
key_ok(key) == BLen(key) > 0 /\ BLen(key) <= BTREE_MAX_KEY_SIZE
val_ok(val) == BLen(val) <= BTREE_MAX_VAL_SIZE

\* [M, root, added]
\* insert_exec that keeps the first piece of a split root as the root.
insert_exec_one_piece(M, root, request) ==
    IF ~key_ok(request.key) \/ ~val_ok(request.val)
    THEN [M |-> Panic(M), root |-> root, added |-> FALSE]
    ELSE IF root = 0
    THEN With(page_new(M, node_append_kv(node_append_kv(new(LEAF, 2), 0, 0, << >>, << >>),
                                         1, 0, request.key, request.val)), LAMBDA p :
           [M |-> p.M, root |-> p.ptr, added |-> TRUE])
    ELSE IF ~IsBNode(page_get(M, root))
    THEN [M |-> Panic(M), root |-> root, added |-> FALSE]
    ELSE With(tree_insert(M, page_get(M, root), request), LAMBDA r :
           IF r.M.panic \/ ~r.some
           THEN [M |-> r.M, root |-> root, added |-> r.added]
           ELSE With(page_del(r.M, root), LAMBDA d :
                With(split3(r.node), LAMBDA s :
                  IF s.panic
                  THEN [M |-> Panic(d), root |-> root, added |-> r.added]
                  ELSE With(page_new(d, s.nodes[1]), LAMBDA p :
                         [M |-> p.M, root |-> p.ptr, added |-> r.added]))))

insert_exec(M, root, request) ==
    IF ~key_ok(request.key) \/ ~val_ok(request.val)
    THEN [M |-> Panic(M), root |-> root, added |-> FALSE]
    ELSE IF root = 0
    THEN With(page_new(M, node_append_kv(node_append_kv(new(LEAF, 2), 0, 0, << >>, << >>),
                                         1, 0, request.key, request.val)), LAMBDA p :
           [M |-> p.M, root |-> p.ptr, added |-> TRUE])
    ELSE IF ~IsBNode(page_get(M, root))
    THEN [M |-> Panic(M), root |-> root, added |-> FALSE]
    ELSE With(tree_insert(M, page_get(M, root), request), LAMBDA r :
           IF r.M.panic \/ ~r.some
           THEN [M |-> r.M, root |-> root, added |-> r.added]
           ELSE With(page_del(r.M, root), LAMBDA d :
                With(split3(r.node), LAMBDA s :
                  IF s.panic
                  THEN [M |-> Panic(d), root |-> root, added |-> r.added]
                  ELSE IF Len(s.nodes) > 1
                  THEN With(replace_kids(d, new(NODE, Len(s.nodes)), 0, s.nodes),
                            LAMBDA k :
                       With(page_new(k.M, k.node), LAMBDA p :
                         [M |-> p.M, root |-> p.ptr, added |-> r.added]))
                  ELSE With(page_new(d, s.nodes[1]), LAMBDA p :
                         [M |-> p.M, root |-> p.ptr, added |-> r.added]))))

\* What insert_exec gets from split3 for the root that tree_insert rebuilt:
\* n_split and the first key of every piece; n = 0 when the root is not
\* rebuilt.
NoSplit == [n |-> 0, keys |-> << >>, bytes |-> 0]

root_split(M, root, request) ==
    IF ~key_ok(request.key) \/ ~val_ok(request.val) \/ root = 0
       \/ ~IsBNode(page_get(M, root))
    THEN NoSplit
    ELSE With(tree_insert(M, page_get(M, root), request), LAMBDA r :
           IF r.M.panic \/ ~r.some THEN NoSplit
           ELSE With(split3(r.node), LAMBDA s :
                  IF s.panic THEN NoSplit
                  ELSE [n |-> Len(s.nodes),
                        keys |-> [i \in 1..Len(s.nodes) |-> get_key(s.nodes[i], 0)],
                        bytes |-> num_bytes(r.node)]))

\* delete that writes the rebuilt root whatever its number of kids.
delete_keep_level(M, root, key) ==
    IF ~key_ok(key) THEN [M |-> Panic(M), root |-> root, deleted |-> FALSE]
    ELSE IF root = 0 THEN [M |-> M, root |-> root, deleted |-> FALSE]
    ELSE IF ~IsBNode(page_get(M, root))
    THEN [M |-> Panic(M), root |-> root, deleted |-> FALSE]
    ELSE With(tree_delete(M, page_get(M, root), key), LAMBDA r :
           IF r.M.panic \/ ~r.some
           THEN [M |-> r.M, root |-> root, deleted |-> FALSE]
           ELSE With(page_new(page_del(r.M, root), r.node), LAMBDA p :
                  [M |-> p.M, root |-> p.ptr, deleted |-> TRUE]))

\* [M, root, deleted]
delete(M, root, key) ==
    IF ~key_ok(key) THEN [M |-> Panic(M), root |-> root, deleted |-> FALSE]
    ELSE IF root = 0 THEN [M |-> M, root |-> root, deleted |-> FALSE]
    ELSE IF ~IsBNode(page_get(M, root))
    THEN [M |-> Panic(M), root |-> root, deleted |-> FALSE]
    ELSE With(tree_delete(M, page_get(M, root), key), LAMBDA r :
           IF r.M.panic \/ ~r.some
           THEN [M |-> r.M, root |-> root, deleted |-> FALSE]
           ELSE With(page_del(r.M, root), LAMBDA d :
                  IF r.node.type = NODE /\ num_keys(r.node) = 1
                  THEN [M |-> d, root |-> get_ptr(r.node, 0), deleted |-> TRUE]
                  ELSE With(page_new(d, r.node), LAMBDA p :
                         [M |-> p.M, root |-> p.ptr, deleted |-> TRUE])))

\* The root tree_delete hands back to delete: its type, its number of keys
\* and its first pointer; some = FALSE when the root is not rebuilt.
NoRoot == [some |-> FALSE, type |-> 0, nkeys |-> 0, ptr |-> 0]

rebuilt_root(M, root, key) ==
    IF ~key_ok(key) \/ root = 0 \/ ~IsBNode(page_get(M, root)) THEN NoRoot
    ELSE With(tree_delete(M, page_get(M, root), key), LAMBDA r :
           IF r.M.panic \/ ~r.some THEN NoRoot
           ELSE [some |-> TRUE, type |-> r.node.type, nkeys |-> num_keys(r.node),
                 ptr |-> IF num_keys(r.node) > 0 /\ r.node.type = NODE
                         THEN get_ptr(r.node, 0) ELSE 0])

\* [ok, found, val]; ok is FALSE when the walk aborts.
NotFound == [ok |-> TRUE, found |-> FALSE, val |-> << >>]
Aborted == [ok |-> FALSE, found |-> FALSE, val |-> << >>]

RECURSIVE get_walk_tree(_, _, _, _)
get_walk_tree(M, node, key, fuel) ==
    IF ~IsBNode(node) \/ ~lookup_ok(node) \/ fuel = 0 THEN Aborted
    ELSE LET idx == node_lookup_le(node, key)
         IN IF node.type = LEAF
            THEN IF BCmp(get_key(node, idx), key) = 0
                 THEN [ok |-> TRUE, found |-> TRUE, val |-> get_val(node, idx)]
                 ELSE NotFound
            ELSE get_walk_tree(M, page_get(M, get_ptr(node, idx)), key, fuel - 1)

get_value(M, root, key) ==
    IF ~key_ok(key) THEN Aborted
    ELSE IF root = 0 THEN NotFound
    ELSE get_walk_tree(M, page_get(M, root), key, 16)

\* ------------------------------------------------------------------------
\* Iterator (b_tree/btree_iter.rs) and seek (b_tree/mod.rs)

\* A BTreeIterator: the nodes from the root to a leaf and the position in
\* each; panic when building or moving it aborted.
Iter(path, positions) == [path |-> path, positions |-> positions, panic |-> FALSE]

IterPanic(it) == [it EXCEPT !.panic = TRUE]

\* The loop of seek_le from the page ptr.
RECURSIVE seek_walk(_, _, _, _, _)
seek_walk(M, ptr, key, it, fuel) ==
    IF ptr = 0 THEN it
    ELSE IF fuel = 0 \/ ~IsBNode(page_get(M, ptr)) \/ ~lookup_ok(page_get(M, ptr))
    THEN IterPanic(it)
    ELSE With(page_get(M, ptr), LAMBDA node :
         With(node_lookup_le(node, key), LAMBDA idx :
           seek_walk(M, IF node.type = NODE THEN get_ptr(node, idx) ELSE 0, key,
                     Iter(Append(it.path, node), Append(it.positions, idx)),
                     fuel - 1)))

seek_le(M, root, key) == seek_walk(M, root, key, Iter(<< >>, << >>), 16)

\* [ok, key, val]: positions.len() - 1 underflows on an iterator without
\* levels, and get_key asserts the index.
deref(it) ==
    IF it.panic \/ Len(it.positions) = 0
    THEN [ok |-> FALSE, key |-> << >>, val |-> << >>]
    ELSE With(it.path[Len(it.positions)], LAMBDA node :
         With(it.positions[Len(it.positions)], LAMBDA idx :
           IF idx >= num_keys(node) THEN [ok |-> FALSE, key |-> << >>, val |-> << >>]
           ELSE [ok |-> TRUE, key |-> get_key(node, idx), val |-> get_val(node, idx)]))

\* The tail of nextIter and prevIter: below level, the kid at the new
\* position is read and entered at its first (next) or last (prev) key.
\* Levels count from 1 here.
enter_kid(M, it, level, first) ==
    IF level >= Len(it.positions) THEN [it |-> it, ret |-> TRUE]
    ELSE With(it.path[level], LAMBDA node :
           IF node.type # NODE \/ it.positions[level] >= num_keys(node)
           THEN [it |-> IterPanic(it), ret |-> FALSE]
           ELSE With(page_get(M, get_ptr(node, it.positions[level])), LAMBDA child_node :
                  IF ~IsBNode(child_node) \/ (~first /\ num_keys(child_node) = 0)
                  THEN [it |-> IterPanic(it), ret |-> FALSE]
                  ELSE [it |-> [it EXCEPT
                                  !.positions[level + 1] =
                                      IF first THEN 0 ELSE num_keys(child_node) - 1,
                                  !.path[level + 1] = child_node],
                        ret |-> TRUE]))

\* [it, ret]
RECURSIVE nextIter(_, _, _)
nextIter(M, it, level) ==
    IF num_keys(it.path[level]) = 0 THEN [it |-> IterPanic(it), ret |-> FALSE]
    ELSE IF it.positions[level] < num_keys(it.path[level]) - 1
    THEN enter_kid(M, [it EXCEPT !.positions[level] = @ + 1], level, TRUE)
    ELSE IF level > 1
    THEN With(nextIter(M, it, level - 1), LAMBDA up :
           IF ~up.ret THEN up ELSE enter_kid(M, up.it, level, TRUE))
    ELSE [it |-> it, ret |-> FALSE]

RECURSIVE prevIter(_, _, _)
prevIter(M, it, level) ==
    IF it.positions[level] > 0
    THEN enter_kid(M, [it EXCEPT !.positions[level] = @ - 1], level, FALSE)
    ELSE IF level > 1
    THEN With(prevIter(M, it, level - 1), LAMBDA up :
           IF ~up.ret THEN up ELSE enter_kid(M, up.it, level, FALSE))
    ELSE [it |-> it, ret |-> FALSE]

\* next and prev: positions.len() - 1 underflows without levels.
next(M, it) ==
    IF it.panic \/ Len(it.positions) = 0 THEN [it |-> IterPanic(it), ret |-> FALSE]
    ELSE nextIter(M, it, Len(it.positions))

prev(M, it) ==
    IF it.panic \/ Len(it.positions) = 0 THEN [it |-> IterPanic(it), ret |-> FALSE]
    ELSE prevIter(M, it, Len(it.positions))

cmp_ok(key, compare, reference_key) ==
    CASE compare = "GT" -> BCmp(key, reference_key) > 0
      [] compare = "GE" -> BCmp(key, reference_key) >= 0
      [] compare = "LT" -> BCmp(key, reference_key) < 0
      [] compare = "LE" -> BCmp(key, reference_key) <= 0

\* seek: the result of next or prev is dropped.
seek(M, root, key, compare) ==
    With(seek_le(M, root, key), LAMBDA it :
      IF compare = "LE" \/ it.panic THEN it
      ELSE With(deref(it), LAMBDA cur :
             IF ~cur.ok THEN IterPanic(it)
             ELSE IF cmp_ok(cur.key, compare, key) THEN it
             ELSE IF compare \in {"GE", "GT"} THEN next(M, it).it
             ELSE prev(M, it).it))

\* The page numbers seek_le reads for key, from the root to the leaf.
path_ptrs(M, tree_root, key) ==
    With(seek_le(M, tree_root, key), LAMBDA it :
      [i \in 1..Len(it.path) |->
         IF i = 1 THEN tree_root ELSE get_ptr(it.path[i - 1], it.positions[i - 1])])

\* ------------------------------------------------------------------------
\* Pager (free_list/page_manager.rs, free_list/master_page.rs)

\* HashMap iteration visits the entries in an order the build does not fix:
\* every order of the deallocated pages is a possible get_freed_ptrs.
get_freed_ptrs(M) == {ptr \in DOMAIN M.updates : M.updates[ptr] = NonePage}

Perms(S) == {f \in [1..Cardinality(S) -> S] : \A x \in S : \E i \in DOMAIN f : f[i] = x}

\* The ascending order, one of them.
RECURSIVE Ascending(_)
Ascending(S) ==
    IF S = {} THEN << >>
    ELSE LET m == CHOOSE x \in S : \A y \in S : x <= y
         IN << m >> \o Ascending(S \ {m})

file_pages(M) == Cardinality(DOMAIN M.pages)

\* The loop of extend_file: the page count the file is extended to.
RECURSIVE grow(_, _)
grow(pages, npages) ==
    IF pages < npages THEN grow(pages + Max(pages \div 8, 1), npages) ELSE pages

needs_extend(M) == file_pages(M) < M.flushed + M.nappend

\* set_len succeeded: the file ends in zero pages.  The map needs no
\* extension: it covers 64 MiB from the start (mmap.rs).
extend_file(M) ==
    IF ~needs_extend(M) THEN M
    ELSE LET n == grow(file_pages(M), M.flushed + M.nappend)
         IN [M EXCEPT !.pages = [i \in 0..(n - 1) |->
                                   IF i \in DOMAIN M.pages THEN M.pages[i] ELSE ZeroPage]]

\* PageManager::write_pages after a successful extension: every pending page
\* with data is copied into the map.
copy_pages(M) ==
    LET live == {ptr \in DOMAIN M.updates : M.updates[ptr] # NonePage}
    IN IF \E ptr \in live : ptr \notin DOMAIN M.pages THEN Panic(M)
       ELSE [M EXCEPT !.pages = [i \in DOMAIN M.pages |->
                                   IF i \in live THEN M.updates[i] ELSE M.pages[i]]]

\* FreeList::write_pages; [M, err].  set_len_ok is the outcome of set_len
\* when the file has to grow.
write_pages(M, freed_ptrs, set_len_ok) ==
    With(update(M, M.nfree, freed_ptrs), LAMBDA u :
      IF u.panic THEN [M |-> u, err |-> FALSE]
      ELSE IF needs_extend(u) /\ ~set_len_ok THEN [M |-> u, err |-> TRUE]
      ELSE [M |-> copy_pages(extend_file(u)), err |-> FALSE])

\* PageManager::flush when the flush of the file succeeded.
flush(M) ==
    [M EXCEPT !.flushed = M.flushed + M.nappend, !.nappend = 0, !.updates = << >>]

\* set_master_page when the write succeeded: 40 bytes at offset 0.
master_save(M, btree_root) ==
    [M EXCEPT !.pages = Put(M.pages, 0, MasterRec(btree_root, M.flushed, M.head))]

\* flush_pages when no step fails.
flush_pages(M, btree_root, freed_ptrs) ==
    With(write_pages(M, freed_ptrs, TRUE).M, LAMBDA w :
      IF w.panic THEN w
      ELSE flush(master_save([flush(w) EXCEPT !.nfree = 0], btree_root)))

\* MasterPage::master_load on the file; [ok, root, used, head].
master_load(pages) ==
    IF DOMAIN pages = {} THEN [ok |-> TRUE, root |-> 0, used |-> 1, head |-> 0]
    ELSE LET data == pages[0]
             bad_sig == ~(data.type = 16 /\ data.sig)
             bad == \/ ~(1 <= data.total_used_pages
                         /\ data.total_used_pages <= Cardinality(DOMAIN pages))
                    \/ data.btree_root >= data.total_used_pages
                    \/ data.free_list_head >= data.total_used_pages
                    \/ data.free_list_head < 1
                    \/ data.free_list_head = data.btree_root
         IN IF bad_sig \/ bad THEN [ok |-> FALSE, root |-> 0, used |-> 0, head |-> 0]
            ELSE [ok |-> TRUE, root |-> data.btree_root,
                  used |-> data.total_used_pages, head |-> data.free_list_head]

\* The store a process has after KV::open on the file.
opened(pages) ==
    With(master_load(pages), LAMBDA m : Machine(pages, << >>, 0, 0, m.used, m.head))

\* ------------------------------------------------------------------------
\* Walks over the stored structures (the test container of b_tree/mod.rs)

\* The cells of the leaves under ptr, left to right, as <<key, val>>.
RECURSIVE node_dump(_, _, _)
RECURSIVE kids_dump(_, _, _, _)
node_dump(M, ptr, fuel) ==
    LET node == page_get(M, ptr)
    IN IF ~IsBNode(node) \/ fuel = 0 THEN << >>
       ELSE IF node.type = LEAF
       THEN [i \in 1..num_keys(node) |-> << node.key[i], node.val[i] >>]
       ELSE kids_dump(M, node, 0, fuel - 1)

kids_dump(M, node, i, fuel) ==
    IF i >= num_keys(node) THEN << >>
    ELSE node_dump(M, get_ptr(node, i), fuel) \o kids_dump(M, node, i + 1, fuel)

\* C::dump: the cells without the first one, the sentinel.
dump(M, root) ==
    LET cells == node_dump(M, root, 16)
    IN IF root = 0 \/ cells = << >> THEN << >> ELSE Tail(cells)

\* C::node_verify: at least one key, and every child starts with the key
\* its parent holds for it.
RECURSIVE node_verify(_, _, _)
node_verify(M, node, fuel) ==
    /\ IsBNode(node)
    /\ fuel > 0
    /\ num_keys(node) >= 1
    /\ node.type = NODE =>
         \A i \in 0..(num_keys(node) - 1) :
            LET kid == page_get(M, get_ptr(node, i))
            IN /\ IsBNode(kid)
               /\ num_keys(kid) >= 1
               /\ get_key(kid, 0) = get_key(node, i)
               /\ node_verify(M, kid, fuel - 1)

\* The page numbers of the nodes under ptr, ptr included.
RECURSIVE tree_ptrs(_, _, _)
tree_ptrs(M, ptr, fuel) ==
    LET node == page_get(M, ptr)
    IN IF ptr = 0 THEN {}
       ELSE IF ~IsBNode(node) \/ node.type = LEAF \/ fuel = 0 THEN {ptr}
       ELSE {ptr} \cup UNION {tree_ptrs(M, get_ptr(node, i), fuel - 1) :
                                i \in 0..(num_keys(node) - 1)}

\* The depths of the leaves under ptr, a leaf at ptr being at depth 1.
RECURSIVE leaf_depths(_, _, _)
leaf_depths(M, ptr, fuel) ==
    LET node == page_get(M, ptr)
    IN IF ptr = 0 THEN {}
       ELSE IF ~IsBNode(node) \/ fuel = 0 THEN {0}
       ELSE IF node.type = LEAF THEN {1}
       ELSE {d + 1 : d \in UNION {leaf_depths(M, get_ptr(node, i), fuel - 1) :
                                    i \in 0..(num_keys(node) - 1)}}

RECURSIVE chain(_, _, _)
chain(M, at, fuel) ==
    IF at = 0 \/ fuel = 0 THEN << >>
    ELSE LET node == page_get(M, at)
         IN IF ~IsFLNode(node) THEN << at >>
            ELSE << at >> \o chain(M, node.next, fuel - 1)

Range(f) == {f[i] : i \in DOMAIN f}

RECURSIVE SumSeq(_)
SumSeq(q) == IF q = << >> THEN 0 ELSE Head(q) + SumSeq(Tail(q))

\* The size fields along the chain.
chain_sizes(M, head) ==
    LET c == chain(M, head, 16)
    IN [i \in 1..Len(c) |-> IF IsFLNode(page_get(M, c[i])) THEN page_get(M, c[i]).size
                            ELSE 0]

\* The entries of the list, node by node, as stored.
chain_entries(M, head) ==
    LET c == chain(M, head, 16)
    IN UNION {IF IsFLNode(page_get(M, c[i])) THEN Range(page_get(M, c[i]).ptrs) ELSE {} :
                i \in 1..Len(c)}

\* ------------------------------------------------------------------------
\* The store as a state machine (kv_store/mod.rs over free_list/mod.rs)

\* Bounds: the calls of a run on the empty file, the calls of a run on the
\* filled file, and the failures and process deaths of a run.
MaxOps == 5
MaxLoadedOps == 2
MaxFaults == 1

\* Keys and values of the workload.
kA == Rep(2, 1)
kA2 == Rep(2, 9)
kB == Rep(3, BTREE_MAX_KEY_SIZE)
kC == Rep(4, BTREE_MAX_KEY_SIZE)
kD == Rep(5, BTREE_MAX_KEY_SIZE)
kE == Rep(6, BTREE_MAX_KEY_SIZE)
kX == BCat(Rep(6, BTREE_MAX_KEY_SIZE - 1), Rep(0, 1))

Keys == {kA, kA2, kB, kC, kD, kE, kX}

Loaded ==
    << <<kA, Rep(7, 1045)>>, <<kA2, Rep(7, BTREE_MAX_VAL_SIZE)>>,
       <<kB, Rep(7, BTREE_MAX_VAL_SIZE)>>, <<kC, Rep(7, BTREE_MAX_VAL_SIZE)>>,
       <<kD, Rep(7, BTREE_MAX_VAL_SIZE)>>, <<kE, Rep(7, 2000)>> >>

\* The arguments of set: two keys that share a leaf, one of them with a
\* second value, and a key that sorts just below kE.
Inputs == {Loaded[1], Loaded[2], <<kA, Rep(8, 2)>>, <<kX, << >> >>}

\* The arguments of del.
DelKeys == {kA, kA2, kE, kX}

VARIABLES
    pages,      \* the file and its map: page number -> page
    updates,    \* PageManager.updates
    nfree,      \* FreeList.nfree
    nappend,    \* PageManager.nappend
    flushed,    \* PageManager.flushed
    head,       \* FreeList.head
    root,       \* BTree.root
    pc,         \* where the process is: "idle", inside a commit, or gone
    boot,       \* how the process came to be: "fresh", "closed", "crashed", ...
    result,     \* what the last set/del returned: "none", "ok", "err"
    pre,        \* root and head when the running set/del started
    log,        \* the file operations of the running commit, in order
    reference,  \* the reference map of the calls made
    committed,  \* the reference map as of the last master write
    ops,        \* calls made
    faults,     \* failures and process deaths injected
    last,       \* the last call on the tree or the iterator, and what it returned
    iter        \* the iterator a seek returned, while it is borrowed

vars == << pages, updates, nfree, nappend, flushed, head, root, pc, boot, result,
           pre, log, reference, committed, ops, faults, last, iter >>

Mem == Machine(pages, updates, nfree, nappend, flushed, head)

\* The store on the file alone, as a process that opens it would see it.
Disk == opened(pages)

Store(M) ==
    /\ pages' = M.pages
    /\ updates' = M.updates
    /\ nfree' = M.nfree
    /\ nappend' = M.nappend
    /\ flushed' = M.flushed
    /\ head' = M.head

\* The process is gone: its memory with it, the file stays.
Gone(file) ==
    /\ pages' = file
    /\ updates' = << >>
    /\ nfree' = 0
    /\ nappend' = 0
    /\ flushed' = 0
    /\ head' = 0
    /\ root' = 0

Remove(f, k) == [x \in DOMAIN f \ {k} |-> f[x]]

\* No call on the tree yet; no iterator borrowed.
NoCall == [op |-> "none"]
NoIter == [path |-> << >>, positions |-> << >>, panic |-> FALSE, live |-> FALSE]

Init ==
    /\ pages = << >>
    /\ updates = << >>
    /\ nfree = 0
    /\ nappend = 0
    /\ flushed = 1
    /\ head = 0
    /\ root = 0
    /\ pc = "idle"
    /\ boot = "fresh"
    /\ result = "none"
    /\ pre = [root |-> 0, head |-> 0]
    /\ log = << >>
    /\ reference = << >>
    /\ committed = << >>
    /\ ops = 0
    /\ faults = 0
    /\ last = NoCall
    /\ iter = NoIter

\* The process can take a call.
Ready == pc = "idle" /\ ops < MaxOps

\* What update is about to be called with on M, and what the list holds:
\* popn, the pages to free, total(), the entries, the pages of the nodes,
\* the pointers each node holds, and the pointers get(0) .. get(popn - 1).
update_plan(M) ==
    [popn |-> M.nfree,
     freed |-> get_freed_ptrs(M),
     total |-> IF total_ok(M) THEN total(M) ELSE -1,
     entries |-> chain_entries(M, M.head),
     nodes |-> Range(chain(M, M.head, 16)),
     held |-> [at \in Range(chain(M, M.head, 16)) |->
                 IF IsFLNode(page_get(M, at)) THEN Range(page_get(M, at).ptrs)
                 ELSE {}],
     popped |-> {get(M, n).ptr : n \in 0..(M.nfree - 1)}]

\* The start of set and del: the tree operation, then flush_pages.
Call(M, new_root, new_reference) ==
    /\ IF M.panic
       THEN Gone(M.pages) /\ pc' = "panicked"
       ELSE Store(M) /\ root' = new_root /\ pc' = "write_pages"
    /\ pre' = [root |-> root, head |-> head, plan |-> update_plan(M)]
    /\ result' = "none"
    /\ log' = << >>
    /\ reference' = new_reference
    /\ ops' = ops + 1
    /\ boot' = "run"
    /\ UNCHANGED << last, iter, committed, faults >>

Set(key, val) ==
    /\ Ready
    /\ \E r \in {insert_exec(Mem, root, [key |-> key, val |-> val, mode |-> "Upsert"])} :
         Call(r.M, r.root, Put(reference, key, val))

Del(key) ==
    /\ Ready
    /\ \E r \in {delete(Mem, root, key)} : Call(r.M, r.root, Remove(reference, key))

\* write_pages returned Ok.
WritePages ==
    /\ pc = "write_pages"
    /\ \E freed_ptrs \in Perms(get_freed_ptrs(Mem)) :
         With(write_pages(Mem, freed_ptrs, TRUE).M, LAMBDA w :
           IF w.panic
           THEN Gone(w.pages) /\ pc' = "panicked" /\ UNCHANGED log
           ELSE Store(w) /\ root' = root /\ pc' = "flush1"
                /\ log' = Append(log, "copy"))
    /\ UNCHANGED << last, iter, boot, result, pre, reference, committed, ops, faults >>

\* set_len failed: flush_pages returns the error.
WritePagesErr ==
    /\ pc = "write_pages"
    /\ faults < MaxFaults
    /\ \E freed_ptrs \in Perms(get_freed_ptrs(Mem)) :
         With(write_pages(Mem, freed_ptrs, FALSE), LAMBDA w :
           /\ w.err
           /\ Store(w.M))
    /\ pc' = "idle"
    /\ result' = "err"
    /\ faults' = faults + 1
    /\ UNCHANGED << last, iter, root, boot, pre, log, reference, committed, ops >>

\* sync_pages without the first flush: straight on to the master write.
Flush1Skipped ==
    /\ pc = "flush1"
    /\ Store([Mem EXCEPT !.nfree = 0])
    /\ pc' = "master_save"
    /\ UNCHANGED << last, iter, root, boot, result, pre, log, reference, committed, ops, faults >>

\* The first flush of sync_pages, and nfree = 0 after it.
Flush1 ==
    /\ pc = "flush1"
    /\ Store([flush(Mem) EXCEPT !.nfree = 0])
    /\ pc' = "master_save"
    /\ log' = Append(log, "flush")
    /\ UNCHANGED << last, iter, root, boot, result, pre, reference, committed, ops, faults >>

Flush1Err ==
    /\ pc = "flush1"
    /\ faults < MaxFaults
    /\ pc' = "idle"
    /\ result' = "err"
    /\ log' = Append(log, "flush_err")
    /\ faults' = faults + 1
    /\ UNCHANGED << last, iter, pages, updates, nfree, nappend, flushed, head, root, boot, pre,
                    reference, committed, ops >>

MasterSave ==
    /\ pc = "master_save"
    /\ Store(master_save(Mem, root))
    /\ pc' = "flush2"
    /\ log' = Append(log, "master")
    /\ committed' = reference
    /\ UNCHANGED << last, iter, root, boot, result, pre, reference, ops, faults >>

\* master_save returned an error: the lock or write_at failed (nothing
\* written), or unlock failed after the write.
MasterSaveErr(written) ==
    /\ pc = "master_save"
    /\ faults < MaxFaults
    /\ IF written
       THEN /\ Store(master_save(Mem, root))
            /\ log' = Append(log, "master")
            /\ committed' = reference
       ELSE UNCHANGED << pages, updates, nfree, nappend, flushed, head, log, committed >>
    /\ pc' = "idle"
    /\ result' = "err"
    /\ faults' = faults + 1
    /\ UNCHANGED << last, iter, root, boot, pre, reference, ops >>

Flush2 ==
    /\ pc = "flush2"
    /\ Store(flush(Mem))
    /\ pc' = "idle"
    /\ result' = "ok"
    /\ log' = Append(log, "flush")
    /\ UNCHANGED << last, iter, root, boot, pre, reference, committed, ops, faults >>

Flush2Err ==
    /\ pc = "flush2"
    /\ faults < MaxFaults
    /\ pc' = "idle"
    /\ result' = "err"
    /\ log' = Append(log, "flush_err")
    /\ faults' = faults + 1
    /\ UNCHANGED << last, iter, pages, updates, nfree, nappend, flushed, head, root, boot, pre,
                    reference, committed, ops >>

\* The process dies inside a commit.
Crash ==
    /\ pc \in {"write_pages", "flush1", "master_save", "flush2"}
    /\ faults < MaxFaults
    /\ Gone(pages)
    /\ pc' = "crashed"
    /\ faults' = faults + 1
    /\ UNCHANGED << last, iter, boot, result, pre, log, reference, committed, ops >>

\* KV::close.
Close ==
    /\ pc = "idle"
    /\ boot # "closed"
    /\ Gone(pages)
    /\ pc' = "closed"
    /\ UNCHANGED << last, iter, boot, result, pre, log, reference, committed, ops, faults >>

\* KV::open on the file a process left.
Open ==
    /\ pc \in {"closed", "crashed", "panicked"}
    /\ With(master_load(pages), LAMBDA m :
         IF m.ok
         THEN /\ Store(opened(pages))
              /\ root' = m.root
              /\ pc' = "idle"
         ELSE /\ Gone(pages)
              /\ pc' = "open_failed")
    /\ boot' = pc
    /\ result' = "none"
    /\ reference' = committed
    /\ UNCHANGED << last, iter, pre, log, committed, ops, faults >>

Next ==
    \/ \E in \in Inputs : Set(in[1], in[2])
    \/ \E key \in DelKeys : Del(key)
    \/ WritePages
    \/ WritePagesErr
    \/ Flush1
    \/ Flush1Err
    \/ MasterSave
    \/ \E written \in BOOLEAN : MasterSaveErr(written)
    \/ Flush2
    \/ Flush2Err
    \/ Crash
    \/ Close
    \/ Open

Spec == Init /\ [][Next]_vars

\* ------------------------------------------------------------------------
\* The same store opened on a file that earlier calls filled: the sets of
\* Loaded, each one committed, made on an empty file.

\* [M, root]
RECURSIVE load(_, _, _)
load(M, tree_root, inputs) ==
    IF inputs = << >> THEN [M |-> M, root |-> tree_root]
    ELSE With(insert_exec(M, tree_root,
                          [key |-> Head(inputs)[1], val |-> Head(inputs)[2],
                           mode |-> "Upsert"]), LAMBDA r :
           load(flush_pages(r.M, r.root, Ascending(get_freed_ptrs(r.M))),
                r.root, Tail(inputs)))

RECURSIVE load_reference(_, _)
load_reference(f, inputs) ==
    IF inputs = << >> THEN f
    ELSE load_reference(Put(f, Head(inputs)[1], Head(inputs)[2]), Tail(inputs))

InitLoaded ==
    /\ \E l \in {load(opened(<< >>), 0, Loaded)} :
         /\ pages = l.M.pages
         /\ flushed = l.M.flushed
         /\ head = l.M.head
         /\ root = l.root
         /\ pre = [root |-> l.root, head |-> l.M.head]
    /\ updates = << >>
    /\ nfree = 0
    /\ nappend = 0
    /\ pc = "idle"
    /\ boot = "loaded"
    /\ result = "none"
    /\ log = << >>
    /\ reference = load_reference(<< >>, Loaded)
    /\ committed = load_reference(<< >>, Loaded)
    /\ ops = 0
    /\ faults = 0
    /\ last = NoCall
    /\ iter = NoIter

\* Calls and commits without failures.
NextLoaded ==
    \/ ops < MaxLoadedOps /\ \E in \in Inputs : Set(in[1], in[2])
    \/ ops < MaxLoadedOps /\ \E key \in DelKeys : Del(key)
    \/ WritePages
    \/ Flush1
    \/ MasterSave
    \/ Flush2

SpecLoaded == InitLoaded /\ [][NextLoaded]_vars

\* ------------------------------------------------------------------------
\* The tree and its iterator as a library: calls of insert_exec with every
\* mode, delete and seek, and steps of the iterator, on the never-written
\* tree and on the filled one.  Every call that changes the tree is
\* committed before the next one.

\* Bounds: the calls that change the tree, and the steps of one iterator.
MaxTreeOps == 3
MaxSteps == 2

Modes == {"Upsert", "UpdateOnly", "InsertOnly"}

Requests ==
    {[key |-> kE, val |-> Rep(8, 2), mode |-> m] : m \in Modes}
        \cup {[key |-> kX, val |-> << >>, mode |-> "Upsert"],
              [key |-> kA2, val |-> Rep(7, BTREE_MAX_VAL_SIZE), mode |-> "Upsert"]}

TreeDelKeys == {kA, kE}

\* Arguments outside the limits: an empty key, a key of 1001 bytes, a value
\* of 3001 bytes.
BadKeys == {<< >>, Rep(6, BTREE_MAX_KEY_SIZE + 1)}

BadRequests ==
    {[key |-> k, val |-> Rep(8, 2), mode |-> "Upsert"] : k \in BadKeys}
        \cup {[key |-> kE, val |-> Rep(7, BTREE_MAX_VAL_SIZE + 1), mode |-> "Upsert"]}

SeekKeys == {kA, kB, kE, kX}

CmpOption == {"GT", "GE", "LT", "LE"}

\* The keys the leaves under root hold, the sentinel aside.
stored_keys(M, tree_root) == {c[1] : c \in Range(dump(M, tree_root))}

\* The values the leaves hold for key.
stored_vals(M, tree_root, key) ==
    {c[2] : c \in {d \in Range(dump(M, tree_root)) : d[1] = key}}

\* The reference map after an insert_exec.
reference_insert(f, request) ==
    IF request.mode = "InsertOnly" /\ request.key \in DOMAIN f THEN f
    ELSE IF request.mode = "UpdateOnly" /\ request.key \notin DOMAIN f THEN f
    ELSE Put(f, request.key, request.val)

\* A call that changed the tree returns after its commit; the iterator of
\* before is gone.
Returned(M, new_root, new_reference) ==
    /\ IF M.panic
       THEN Gone(M.pages) /\ pc' = "panicked"
       ELSE Store(M) /\ root' = new_root /\ pc' = "idle"
    /\ pre' = [root |-> root, head |-> head]
    /\ result' = "ok"
    /\ reference' = new_reference
    /\ committed' = new_reference
    /\ ops' = ops + 1
    /\ iter' = NoIter
    /\ UNCHANGED << boot, log, faults >>

\* What a call on the tree did before its commit: whether it allocated or
\* freed a page, and whether it moved the root.
touched(M, after) ==
    \/ after.updates # M.updates
    \/ after.nappend # M.nappend
    \/ after.nfree # M.nfree

\* What a call on the tree did to the pages, between the store M it found
\* with its root and the store after with its root, before the commit: the
\* pages it passed to page_del, the pages it wrote, the path seek_le takes
\* to key in the tree of before, and the pages of the tree before and after.
page_effects(M, tree_root, key, after, new_root) ==
    [freed |-> get_freed_ptrs(after),
     alloc |-> {ptr \in DOMAIN after.updates : after.updates[ptr] # NonePage},
     path |-> path_ptrs(M, tree_root, key),
     old_tree |-> tree_ptrs(M, tree_root, 16),
     new_tree |-> tree_ptrs(after, new_root, 16)]

\* A call whose effects on the pages are not recorded.
NoEffects == [freed |-> {}, alloc |-> {}, path |-> << >>, old_tree |-> {}, new_tree |-> {}]

\* The orders get_freed_ptrs may return the pages S in: any of them, or the
\* ascending one alone.
Orders(S, any_order) == IF any_order THEN Perms(S) ELSE {Ascending(S)}

\* insert_exec and the commit that follows it; detail: whether the call's
\* effects on the pages are recorded in last.
InsertCall(request, any_order, detail) ==
    /\ pc = "idle"
    /\ \E r \in {insert_exec(Mem, root, request)} :
         /\ \E freed_ptrs \in Orders(get_freed_ptrs(r.M), any_order) :
              Returned(flush_pages(r.M, r.root, freed_ptrs), r.root,
                       reference_insert(reference, request))
         /\ last' = [op |-> "insert", key |-> request.key, val |-> request.val,
                     mode |-> request.mode, ret |-> r.added, panic |-> r.M.panic,
                     had |-> request.key \in stored_keys(Mem, root),
                     held |-> stored_vals(Mem, root, request.key),
                     was |-> get_value(Mem, root, request.key),
                     touched |-> touched(Mem, r.M),
                     effects |-> IF detail
                                 THEN page_effects(Mem, root, request.key, r.M, r.root)
                                 ELSE NoEffects,
                     sites |-> << >>,
                     split |-> IF detail THEN root_split(Mem, root, request)
                               ELSE NoSplit,
                     depths |-> IF detail THEN leaf_depths(Mem, root, 16) ELSE {},
                     before |-> IF detail THEN stored_keys(Mem, root) ELSE {},
                     root_before |-> root, root_after |-> r.root]

Insert(request) ==
    /\ ops < MaxTreeOps
    /\ InsertCall(request, TRUE, FALSE)

\* delete and the commit that follows it.
DeleteCall(key, any_order, detail) ==
    /\ pc = "idle"
    /\ \E r \in {delete(Mem, root, key)} :
         /\ \E freed_ptrs \in Orders(get_freed_ptrs(r.M), any_order) :
              Returned(flush_pages(r.M, r.root, freed_ptrs), r.root,
                       Remove(reference, key))
         /\ last' = [op |-> "delete", key |-> key, ret |-> r.deleted,
                     panic |-> r.M.panic,
                     had |-> key \in stored_keys(Mem, root),
                     sites |-> IF detail
                               THEN merge_sites(Mem, page_get(Mem, root), key, 16)
                               ELSE << >>,
                     effects |-> IF detail
                                 THEN page_effects(Mem, root, key, r.M, r.root)
                                 ELSE NoEffects,
                     depths |-> IF detail THEN leaf_depths(Mem, root, 16) ELSE {},
                     rebuilt |-> IF detail THEN rebuilt_root(Mem, root, key)
                                 ELSE NoRoot,
                     before |-> IF detail THEN stored_keys(Mem, root) ELSE {},
                     root_before |-> root, root_after |-> r.root]

Delete(key) ==
    /\ ops < MaxTreeOps
    /\ DeleteCall(key, TRUE, FALSE)

\* seek borrows the tree for the iterator it returns: the next seek is made
\* once that iterator is dropped, on the tree as the last call left it.
Seek(key, compare) ==
    /\ pc = "idle"
    /\ ~iter.live
    /\ \E it \in {seek(Mem, root, key, compare)} :
         /\ IF it.panic
            THEN Gone(pages) /\ pc' = "panicked" /\ iter' = NoIter
            ELSE /\ iter' = [path |-> it.path, positions |-> it.positions,
                             panic |-> FALSE, live |-> TRUE]
                 /\ UNCHANGED << pages, updates, nfree, nappend, flushed, head, root, pc >>
         /\ last' = [op |-> "seek", key |-> key, compare |-> compare,
                     panic |-> it.panic, steps |-> 0, root_before |-> root]
    /\ UNCHANGED << boot, result, pre, log, reference, committed, ops, faults >>

\* A step of the iterator: next (forward) or prev.
Step(forward) ==
    /\ pc = "idle"
    /\ iter.live
    /\ last.steps < MaxSteps
    /\ \E m \in {IF forward THEN next(Mem, iter) ELSE prev(Mem, iter)} :
         /\ IF m.it.panic
            THEN Gone(pages) /\ pc' = "panicked" /\ iter' = NoIter
            ELSE /\ iter' = [iter EXCEPT !.path = m.it.path,
                                         !.positions = m.it.positions]
                 /\ UNCHANGED << pages, updates, nfree, nappend, flushed, head, root, pc >>
         /\ last' = [op |-> IF forward THEN "next" ELSE "prev", ret |-> m.ret,
                     panic |-> m.it.panic, steps |-> last.steps + 1, before |-> iter]
    /\ UNCHANGED << boot, result, pre, log, reference, committed, ops, faults >>

IterNext == Step(TRUE)

IterPrev == Step(FALSE)

InitTree == Init \/ InitLoaded

NextTree ==
    \/ \E request \in Requests \cup BadRequests : Insert(request)
    \/ \E key \in TreeDelKeys \cup BadKeys : Delete(key)
    \/ \E key \in SeekKeys, compare \in CmpOption : Seek(key, compare)
    \/ IterNext
    \/ IterPrev

SpecTree == InitTree /\ [][NextTree]_vars

\* ------------------------------------------------------------------------
\* Properties

Alive == pc \in {"idle", "write_pages", "flush1", "master_save", "flush2"}

Pairs(f) == {<< k, f[k] >> : k \in DOMAIN f}

\* get_value answers for key as the map f does.
Agrees(M, tree_root, f, key) ==
    LET g == get_value(M, tree_root, key)
    IN /\ g.ok
       /\ g.found <=> key \in DOMAIN f
       /\ g.found => g.val = f[key]

\* The leaves hold exactly the pairs of f, each once.
Holds(M, tree_root, f) ==
    LET cells == dump(M, tree_root)
    IN /\ Range(cells) = Pairs(f)
       /\ Len(cells) = Cardinality(DOMAIN f)

\* C1: after any sequence of set and del calls the contents of the tree are
\* those of the reference map driven by the same calls, and get_value
\* returns the reference map's value for every key.
C1_Refinement ==
    pc = "idle" =>
        /\ Holds(Mem, root, reference)
        /\ \A key \in Keys : Agrees(Mem, root, reference, key)

\* C2: while a set or del has not yet rewritten page 0, the file still
\* reopens, and to exactly the keys and values it held before the call: a
\* process death there loses nothing that was committed.
C2_CrashSafe ==
    pc \in {"write_pages", "flush1", "master_save"} =>
        /\ master_load(pages).ok
        /\ Holds(Disk, master_load(pages).root, committed)

IsPrefix(q, t) == Len(q) <= Len(t) /\ q = SubSeq(t, 1, Len(q))

CommitOrder == << "copy", "flush", "master", "flush" >>

\* The steps of the running commit came in the order of CommitOrder; a
\* flush that failed is the last of them.
InOrder ==
    \/ IsPrefix(log, CommitOrder)
    \/ /\ Len(log) \in {2, 4}
       /\ log[Len(log)] = "flush_err"
       /\ IsPrefix(SubSeq(log, 1, Len(log) - 1), CommitOrder)

C4_Reopen ==
    (boot = "closed" /\ faults = 0) =>
        /\ pc # "open_failed"
        /\ pc = "idle" => \A key \in Keys : Agrees(Mem, root, committed, key)

\* C5: when a step of the commit before the second flush returns an error,
\* set/del returns with the root and the free-list head of before the call
\* and with no pending writes.
C5_RolledBack ==
    (pc = "idle" /\ result = "err" /\ Len(log) < 4) =>
        /\ root = pre.root
        /\ head = pre.head
        /\ updates = << >>

\* C6: in every internal node the key at index i is the first key of the
\* child at index i, and the first key of the root is the empty sentinel.
C6_Separators ==
    (pc = "idle" /\ root # 0) =>
        /\ node_verify(Mem, page_get(Mem, root), 16)
        /\ get_key(page_get(Mem, root), 0) = << >>

strictly_ascending(node) ==
    \A i \in 1..(num_keys(node) - 1) : BCmp(node.key[i], node.key[i + 1]) < 0

\* C7: the keys of every leaf are strictly ascending.
C7_LeavesSorted ==
    pc = "idle" =>
        \A ptr \in tree_ptrs(Mem, root, 16) :
            LET node == page_get(Mem, ptr)
            IN (IsBNode(node) /\ node.type = LEAF) => strictly_ascending(node)

\* C8: every node handed to page_new, on the insert path and on the delete
\* path, has num_bytes <= BTREE_PAGE_SIZE.
C8_NodesFit ==
    Alive =>
        \A ptr \in DOMAIN updates :
            IsBNode(updates[ptr]) => num_bytes(updates[ptr]) <= BTREE_PAGE_SIZE

TreePages == tree_ptrs(Mem, root, 16)
ListNodes == Range(chain(Mem, head, 16))
ListEntries == chain_entries(Mem, head)

\* C9: after every committed set/del every page the tree or the free list
\* (as a node or as an entry) refers to lies in [1, flushed), and no page is
\* referred to by both.
C9_PagesAccounted ==
    (pc = "idle" /\ result = "ok") =>
        /\ (TreePages \cup ListNodes \cup ListEntries) \subseteq 1..(flushed - 1)
        /\ TreePages \cap (ListNodes \cup ListEntries) = {}

C9_Witness ==
    /\ pc = "idle" /\ result = "ok"
    /\ Cardinality(TreePages) >= 3
    /\ Cardinality(ListEntries) >= 3

\* C10: after every commit total() is the sum of the size fields of the
\* nodes on the chain from head.
C10_TotalIsSum ==
    (pc = "idle" /\ result = "ok") =>
        /\ total_ok(Mem)
        /\ total(Mem) = SumSeq(chain_sizes(Mem, head))

C10_Witness == pc = "idle" /\ result = "ok" /\ head # 0 /\ total(Mem) >= 3

\* ------------------------------------------------------------------------
\* Properties of the tree calls and of the iterator

Inserted(mode) == last.op = "insert" /\ last.mode = mode /\ ~last.panic

\* C11: insert in Upsert mode returns true exactly when the key was not
\* stored before the call, the never-written tree included.
C11_AddedIffAbsent ==
    Inserted("Upsert") => (last.ret <=> ~last.had)

\* C12: delete returns true exactly when the key was stored before the
\* call; after a true, get_value finds nothing for the key; on the
\* never-written tree it returns false.
C12_DeletedIffPresent ==
    (last.op = "delete" /\ ~last.panic) =>
        /\ last.ret <=> last.had
        /\ (last.ret /\ pc = "idle") => ~get_value(Mem, root, last.key).found
        /\ last.root_before = 0 => ~last.ret

\* C13: InsertOnly on a key that is stored leaves what is stored for it as
\* it was and reports added = false.
C13_InsertOnlyKeeps ==
    (Inserted("InsertOnly") /\ last.had) =>
        /\ ~last.ret
        /\ pc = "idle" => stored_vals(Mem, root, last.key) = last.held

\* C14: UpdateOnly on a key that is not stored does not insert it: added is
\* false and get_value finds nothing afterwards, the never-written tree
\* included.
C14_UpdateOnlySkips ==
    (Inserted("UpdateOnly") /\ ~last.had) =>
        /\ ~last.ret
        /\ pc = "idle" => ~get_value(Mem, root, last.key).found

\* C15: when insert_exec finds the key with a value equal to the new one, it
\* allocates no page, frees none, and leaves the root as it was.
C15_EqualValueElided ==
    (last.op = "insert" /\ last.was.found /\ last.was.val = last.val) =>
        /\ ~last.panic
        /\ ~last.touched
        /\ last.root_after = last.root_before

C15_Witness ==
    /\ last.op = "insert" /\ last.was.found /\ last.was.val = last.val
    /\ pc = "idle" /\ ops >= 2 /\ root # 0

\* The stored keys that satisfy compare against key, and the nearest of
\* them: the greatest for LE and LT, the least for GE and GT.
Candidates(key, compare) ==
    {k \in stored_keys(Mem, last.root_before) : cmp_ok(k, compare, key)}

Nearest(S, compare) ==
    IF compare \in {"LE", "LT"}
    THEN CHOOSE k \in S : \A j \in S : BCmp(j, k) <= 0
    ELSE CHOOSE k \in S : \A j \in S : BCmp(k, j) <= 0

\* The state right after a seek that had something to find (or nothing).
Sought(some) ==
    /\ last.op = "seek"
    /\ (Candidates(last.key, last.compare) # {}) = some

\* C16: when a stored key satisfies compare against key, seek returns the
\* iterator on the nearest such key, with its value.
C16_SeekNearest ==
    Sought(TRUE) =>
        /\ ~last.panic
        /\ deref(iter).ok
        /\ deref(iter).key = Nearest(Candidates(last.key, last.compare), last.compare)
        /\ << deref(iter).key, deref(iter).val >> \in Range(dump(Mem, root))

\* C17: when no stored key satisfies compare against key, seek returns
\* without aborting and the iterator is on no entry whose key fails compare.
C17_SeekEnd ==
    Sought(FALSE) =>
        /\ ~last.panic
        /\ deref(iter).ok => cmp_ok(deref(iter).key, last.compare, last.key)

\* C18: the iterator a seek returns is never on the sentinel, and get_value
\* never finds it.
C18_NoSentinel ==
    /\ (last.op = "seek" /\ ~last.panic /\ deref(iter).ok) => deref(iter).key # << >>
    /\ Alive => ~get_value(Mem, root, << >>).found

Greatest(S) == CHOOSE k \in S : \A j \in S : BCmp(j, k) <= 0
Least(S) == CHOOSE k \in S : \A j \in S : BCmp(k, j) <= 0

\* The iterator stood on key before the step just made.
StoodOn(key) == deref(last.before).ok /\ deref(last.before).key = key

\* C19: next on the iterator that stands on the greatest stored key returns
\* false and leaves the path and the positions as they were.
C19_NextAtEnd ==
    (last.op = "next" /\ stored_keys(Mem, root) # {}
        /\ StoodOn(Greatest(stored_keys(Mem, root)))) =>
        /\ ~last.ret
        /\ ~last.panic
        /\ iter.path = last.before.path
        /\ iter.positions = last.before.positions

\* C20: prev on the iterator that stands on the least stored user key
\* returns false and leaves the iterator on that key.
C20_PrevAtStart ==
    (last.op = "prev" /\ stored_keys(Mem, root) # {}
        /\ StoodOn(Least(stored_keys(Mem, root)))) =>
        /\ ~last.ret
        /\ ~last.panic
        /\ deref(iter).key = Least(stored_keys(Mem, root))
\* ------------------------------------------------------------------------
\* C21..C30

\* The iterator on the first (first = TRUE) or the last position of every
\* level, from the page ptr down to a leaf.
RECURSIVE edge_walk(_, _, _, _, _)
edge_walk(M, ptr, first, it, fuel) ==
    IF fuel = 0 \/ ~IsBNode(page_get(M, ptr)) \/ num_keys(page_get(M, ptr)) = 0
    THEN IterPanic(it)
    ELSE With(page_get(M, ptr), LAMBDA node :
         With(IF first THEN 0 ELSE num_keys(node) - 1, LAMBDA idx :
         With(Iter(Append(it.path, node), Append(it.positions, idx)), LAMBDA down :
           IF node.type = NODE THEN edge_walk(M, get_ptr(node, idx), first, down, fuel - 1)
           ELSE down)))

leftmost(M, tree_root) == edge_walk(M, tree_root, TRUE, Iter(<< >>, << >>), 16)
rightmost(M, tree_root) == edge_walk(M, tree_root, FALSE, Iter(<< >>, << >>), 16)

\* deref, then next (or prev) until it returns false: [cells, panic].
RECURSIVE scan(_, _, _, _)
scan(M, it, forward, fuel) ==
    IF fuel = 0 \/ it.panic \/ ~deref(it).ok THEN [cells |-> << >>, panic |-> TRUE]
    ELSE With(IF forward THEN next(M, it) ELSE prev(M, it), LAMBDA moved :
           IF moved.it.panic THEN [cells |-> << >>, panic |-> TRUE]
           ELSE IF ~moved.ret
           THEN [cells |-> << << deref(it).key, deref(it).val >> >>, panic |-> FALSE]
           ELSE With(scan(M, moved.it, forward, fuel - 1), LAMBDA rest :
                  [cells |-> << << deref(it).key, deref(it).val >> >> \o rest.cells,
                   panic |-> rest.panic]))

Reverse(q) == [i \in 1..Len(q) |-> q[Len(q) + 1 - i]]

Ascends(cells) ==
    \A i \in 1..(Len(cells) - 1) : BCmp(cells[i][1], cells[i + 1][1]) < 0

ScanLimit == 32

\* C21: from the leftmost position, next until false visits the sentinel and
\* then every stored entry once, keys strictly ascending; from the rightmost
\* position, prev visits the same entries in the opposite order.
C21_FullScan ==
    (pc = "idle" /\ root # 0) =>
        /\ ~scan(Mem, leftmost(Mem, root), TRUE, ScanLimit).panic
        /\ scan(Mem, leftmost(Mem, root), TRUE, ScanLimit).cells
              = node_dump(Mem, root, 16)
        /\ Ascends(scan(Mem, leftmost(Mem, root), TRUE, ScanLimit).cells)
        /\ ~scan(Mem, rightmost(Mem, root), FALSE, ScanLimit).panic
        /\ scan(Mem, rightmost(Mem, root), FALSE, ScanLimit).cells
              = Reverse(node_dump(Mem, root, 16))

\* The last call was an insert_exec or a delete whose arguments are within
\* the limits (within = TRUE) or outside them.
Argued(within) ==
    /\ last.op \in {"insert", "delete"}
    /\ (key_ok(last.key) /\ (last.op = "insert" => val_ok(last.val))) = within

\* C22: a call with an empty key, a key over 1000 bytes or a value over 3000
\* bytes returns to its caller without adding or removing a key and leaves
\* the root, the free list head and the pending pages as they were; a call
\* with a key of 1 or 1000 bytes and a value of 0 or 3000 bytes is carried
\* out.
C22_BadArguments ==
    /\ Argued(FALSE) =>
         /\ ~last.panic
         /\ pc = "idle"
         /\ ~last.ret
         /\ root = last.root_before
         /\ head = pre.head
    /\ (Argued(TRUE) /\ BLen(last.key) \in {1, BTREE_MAX_KEY_SIZE}
          /\ (last.op = "insert" => BLen(last.val) \in {0, BTREE_MAX_VAL_SIZE})) =>
         ~last.panic

\* Opening a file somebody else wrote: a master page with any signature and
\* any three numbers, on a file of one to MaxFilePages pages.
MaxFilePages == 4

MasterFields == 0..(MaxFilePages + 1)

foreign_file(npages, sig, btree_root, used, fl_head) ==
    [i \in 0..(npages - 1) |->
        IF i = 0 THEN [MasterRec(btree_root, used, fl_head) EXCEPT !.sig = sig]
        ELSE ZeroPage]

InitMaster ==
    /\ \E npages \in 1..MaxFilePages, sig \in BOOLEAN,
          btree_root \in MasterFields, used \in MasterFields, fl_head \in MasterFields :
         pages = foreign_file(npages, sig, btree_root, used, fl_head)
    /\ updates = << >>
    /\ nfree = 0
    /\ nappend = 0
    /\ flushed = 0
    /\ head = 0
    /\ root = 0
    /\ pc = "closed"
    /\ boot = "fresh"
    /\ result = "none"
    /\ pre = [root |-> 0, head |-> 0]
    /\ log = << >>
    /\ reference = << >>
    /\ committed = << >>
    /\ ops = 0
    /\ faults = 0
    /\ last = NoCall
    /\ iter = NoIter

SpecMaster == InitMaster /\ [][Open]_vars

\* What the master page has to satisfy for the file to be loaded.
MasterValid(data, npages) ==
    /\ data.sig
    /\ 1 <= data.total_used_pages
    /\ data.total_used_pages <= npages
    /\ data.btree_root < data.total_used_pages
    /\ data.free_list_head < data.total_used_pages
    /\ (data.free_list_head = 0 \/ data.free_list_head # data.btree_root)

\* C23: open on a non-empty file succeeds exactly when the master page is
\* valid, and then holds its three numbers; otherwise it fails and nothing
\* is loaded.
C23_MasterLoad ==
    boot = "closed" =>
        /\ (pc = "idle") = MasterValid(pages[0], Cardinality(DOMAIN pages))
        /\ pc = "idle" => /\ root = pages[0].btree_root
                          /\ flushed = pages[0].total_used_pages
                          /\ head = pages[0].free_list_head
        /\ pc # "idle" => pc = "open_failed" /\ root = 0 /\ head = 0

\* The store right after the second call returned, on a file that started
\* empty, when the first call was a set and the second the del of its key:
\* no other two calls leave a tree and an empty reference map.
SetThenDel ==
    /\ boot = "run" /\ faults = 0
    /\ pc = "idle" /\ result = "ok"
    /\ ops = 2
    /\ root # 0
    /\ reference = << >>

\* C24: on a fresh database, after set(k, v) and del(k), get(k) is absent,
\* one tree page is reachable from the root, and the free list's total is 0.
C24_Tiny ==
    SetThenDel =>
        /\ \A key \in Keys : ~get_value(Mem, root, key).found
        /\ Cardinality(TreePages) = 1
        /\ total(Mem) = 0

\* C24, as the code has it: after set(k, v) and del(k) on a fresh database
\* get(k) is absent, one tree page is reachable from the root, and the free
\* list holds one page, the leaf the set wrote and the del replaced.
C24_TinyFreed ==
    SetThenDel =>
        /\ \A key \in Keys : ~get_value(Mem, root, key).found
        /\ Cardinality(TreePages) = 1
        /\ total(Mem) = 1
        /\ ListEntries = {pre.root}
        /\ pre.root \notin TreePages

C24_Witness == SetThenDel /\ head # 0 /\ root # pre.root

\* Filling a tree and then emptying it: inserts of keys that are not stored,
\* then deletes of the stored keys, in any order, until none is left, and
\* then inserts again.  Of
\* the orders get_freed_ptrs may return, the runs of this scenario take one:
\* ascending page numbers.
MaxDrainOps == 8

DrainRequests == {[key |-> kX, val |-> << >>, mode |-> "Upsert"]}

Fill(request) ==
    /\ ops < MaxDrainOps
    /\ last.op # "delete" \/ reference = << >>
    /\ request.key \notin DOMAIN reference
    /\ InsertCall(request, FALSE, TRUE)

Drain(key) ==
    /\ ops < MaxDrainOps
    /\ key \in DOMAIN reference
    /\ DeleteCall(key, FALSE, TRUE)

NextDrain ==
    \/ \E request \in DrainRequests : Fill(request)
    \/ \E key \in Keys : Drain(key)

SpecDrain == InitTree /\ [][NextDrain]_vars

\* The deletes have removed every key that was inserted.
Drained == last.op = "delete" /\ reference = << >> /\ ops >= 2

\* C25: once deletes have removed every user key, the root is a leaf page
\* that holds the sentinel alone and is the only page of the tree.
C25_Drained ==
    Drained =>
        /\ pc = "idle"
        /\ root # 0
        /\ IsBNode(page_get(Mem, root))
        /\ page_get(Mem, root).type = LEAF
        /\ num_keys(page_get(Mem, root)) = 1
        /\ get_key(page_get(Mem, root), 0) = << >>
        /\ TreePages = {root}

\* split3 on its own: nodes of up to MaxCells entries, each entry within the
\* limits for keys and values, in a buffer of two pages.
MaxCells == 5

LeafCells ==
    { << Rep(2, 1), << >> >>,
      << Rep(3, 33), Rep(7, 2000) >>,
      << Rep(4, BTREE_MAX_KEY_SIZE), Rep(7, BTREE_MAX_VAL_SIZE) >>,
      << Rep(5, BTREE_MAX_KEY_SIZE), << >> >>,
      << Rep(6, 1), Rep(7, BTREE_MAX_VAL_SIZE) >> }

NodeCells == {<< c[1], << >> >> : c \in LeafCells}

CellSeqs(cells) == UNION {[1..n -> cells] : n \in 1..MaxCells}

RECURSIVE append_cells(_, _, _)
append_cells(node, cells, idx) ==
    IF idx >= Len(cells) THEN node
    ELSE append_cells(node_append_kv(node, idx, 0, cells[idx + 1][1], cells[idx + 1][2]),
                      cells, idx + 1)

built(b_type, cells) ==
    append_cells(new_with_size(b_type, Len(cells), 2 * BTREE_PAGE_SIZE), cells, 0)

cells_of(node) == [i \in 1..num_keys(node) |-> << node.key[i], node.val[i] >>]

SplitInputs ==
    {n \in {built(LEAF, c) : c \in CellSeqs(LeafCells)}
            \cup {built(NODE, c) : c \in CellSeqs(NodeCells)} :
        num_bytes(n) <= 2 * BTREE_PAGE_SIZE}

InitSplit ==
    /\ pages = << >>
    /\ updates = << >>
    /\ nfree = 0
    /\ nappend = 0
    /\ flushed = 1
    /\ head = 0
    /\ root = 0
    /\ pc = "idle"
    /\ boot = "fresh"
    /\ result = "none"
    /\ pre = [root |-> 0, head |-> 0]
    /\ log = << >>
    /\ reference = << >>
    /\ committed = << >>
    /\ ops = 0
    /\ faults = 0
    /\ \E node \in SplitInputs : last = [op |-> "node", node |-> node]
    /\ iter = NoIter

Split3 ==
    /\ last.op = "node"
    /\ last' = [op |-> "split3", node |-> last.node, out |-> split3(last.node)]
    /\ UNCHANGED << pages, updates, nfree, nappend, flushed, head, root, pc, boot,
                    result, pre, log, reference, committed, ops, faults, iter >>

SpecSplit == InitSplit /\ [][Split3]_vars

RECURSIVE Flat(_)
Flat(nodes) ==
    IF nodes = << >> THEN << >> ELSE cells_of(Head(nodes)) \o Flat(Tail(nodes))

\* What split3 has to return for the node it was given.
SplitsWell ==
    /\ ~last.out.panic
    /\ Len(last.out.nodes) \in 1..3
    /\ \A j \in 1..Len(last.out.nodes) :
         /\ num_keys(last.out.nodes[j]) >= 1
         /\ num_bytes(last.out.nodes[j]) <= BTREE_PAGE_SIZE
         /\ last.out.nodes[j].type = last.node.type
    /\ Flat(last.out.nodes) = cells_of(last.node)

\* C26: split3 of a node of at most two pages returns one to three nodes,
\* none empty, each within a page, that hold the entries of the node in
\* their order, and no assertion fails on the way.
C26_Split3 == last.op = "split3" => SplitsWell

\* The bytes the entry at idx takes in its node.
cell_bytes(node, idx) == 10 + 4 + BLen(get_key(node, idx)) + BLen(get_val(node, idx))

\* The node is a node that fits a page with one more entry in it, as
\* leaf_insert and leaf_update make them.
Grown(node) ==
    \E idx \in 0..(num_keys(node) - 1) :
        num_bytes(node) - cell_bytes(node, idx) <= BTREE_PAGE_SIZE

\* C26, as the code has it: split3 does so for every node that is a node
\* within a page plus one entry, and for every internal node (values
\* empty) of at most two pages.
C26_Split3Grown ==
    (last.op = "split3" /\ (Grown(last.node) \/ last.node.type = NODE)) => SplitsWell

C26_Witness ==
    /\ last.op = "split3"
    /\ Grown(last.node)
    /\ num_bytes(last.node) > BTREE_PAGE_SIZE
    /\ Len(last.out.nodes) = 3

\* What the sizes at a call of should_merge ask for.
MergeWanted(site) ==
    IF /\ site.updated <= BTREE_PAGE_SIZE \div 4
       /\ site.left >= 0
       /\ site.left + site.updated - HEADER <= BTREE_PAGE_SIZE
    THEN "Left"
    ELSE IF /\ site.updated <= BTREE_PAGE_SIZE \div 4
            /\ site.right >= 0
            /\ site.right + site.updated - HEADER <= BTREE_PAGE_SIZE
    THEN "Right"
    ELSE "None"

\* C27: in node_delete the updated kid is merged with its left sibling when
\* it has at most a quarter of a page and the two fit a page, else with its
\* right sibling on the same terms, else with none.
C27_MergeChoice ==
    last.op = "delete" =>
        \A j \in 1..Len(last.sites) :
            /\ ~last.sites[j].panic
            /\ last.sites[j].dir = MergeWanted(last.sites[j])

C27_Witness ==
    /\ last.op = "delete" /\ ~last.panic /\ last.ret
    /\ Len(last.sites) = 2
    /\ last.sites[1].dir = "Left"
    /\ last.sites[2].dir = "Right"
    /\ last.sites[2].left = -1

\* The siblings the last delete merged its kids with.
MergedWith == {last.sites[j].gone : j \in 1..Len(last.sites)} \ {0}

\* The pages the last delete passed to page_del, call by call: at every
\* level the kid and then the sibling merged with, and the root at the end.
RECURSIVE DelCalls(_)
DelCalls(sites) ==
    IF sites = << >> THEN << >>
    ELSE << Head(sites).kid >>
           \o (IF Head(sites).gone # 0 THEN << Head(sites).gone >> ELSE << >>)
           \o DelCalls(Tail(sites))

NoRepeat(q) == \A a, b \in 1..Len(q) : q[a] = q[b] => a = b

\* The last call was an insert_exec or a delete that changed the tree.
Changed ==
    /\ last.op \in {"insert", "delete"}
    /\ ~last.panic
    /\ last.root_before # 0
    /\ last.effects.alloc # {}

\* C28: an insert or a delete that changes the tree passes to page_del the
\* pages of the old path from the root to the leaf and the siblings it has
\* merged with, each once, none of them a page it wrote itself, and no
\* other page; the pages of the old tree off that path are pages of the new
\* tree.
C28_PathFreed ==
    Changed =>
        /\ last.effects.freed = Range(last.effects.path) \cup MergedWith
        /\ NoRepeat(last.effects.path)
        /\ last.op = "delete" =>
             /\ NoRepeat(DelCalls(last.sites) \o << last.root_before >>)
             /\ Range(DelCalls(last.sites) \o << last.root_before >>)
                  = last.effects.freed
        /\ last.effects.freed \cap last.effects.alloc = {}
        /\ last.effects.freed \subseteq last.effects.old_tree
        /\ last.effects.old_tree \ last.effects.freed \subseteq last.effects.new_tree
        /\ last.effects.new_tree \cap last.effects.freed = {}
        /\ last.effects.new_tree \ last.effects.old_tree \subseteq last.effects.alloc

C28_Witness ==
    /\ Changed
    /\ last.op = "delete"
    /\ MergedWith # {}
    /\ Cardinality(last.effects.freed) >= 4
    /\ Cardinality(last.effects.old_tree \ last.effects.freed) >= 3

-----------------------------------------------------------------------------
\* Inserts that split the root.

MaxRootOps == 4

\* Two cells that fill a leaf with the sentinel, a cell that fits a page
\* with neither of them, and a key that sorts just below kE.
RootRequests ==
    {[key |-> Loaded[1][1], val |-> Loaded[1][2], mode |-> "Upsert"],
     [key |-> kE, val |-> Rep(7, 2000), mode |-> "Upsert"],
     [key |-> kA2, val |-> Rep(7, BTREE_MAX_VAL_SIZE), mode |-> "Upsert"],
     [key |-> kX, val |-> << >>, mode |-> "Upsert"]}

Grow(request) ==
    /\ ops < MaxRootOps
    /\ InsertCall(request, FALSE, TRUE)

NextRoot == \E request \in RootRequests : Grow(request)

SpecRoot == InitTree /\ [][NextRoot]_vars

\* The last call was an insert_exec that rebuilt the root.
RootRebuilt ==
    /\ last.op = "insert"
    /\ ~last.panic
    /\ last.split.n > 0

Taller(depths) == {d + 1 : d \in depths}

\* C29: when split3 cuts the root an insert rebuilt into n = 2 or 3 pieces,
\* the new root is an internal node of n kids, the key of kid i being the
\* first key of piece i, and every leaf is one level deeper than before;
\* when the root comes back in one piece every leaf stays at its depth.
C29_RootSplit ==
    RootRebuilt =>
        LET new_root == page_get(Mem, root)
        IN /\ last.split.n \in 1..3
           /\ IsBNode(new_root)
           /\ last.split.n = 1 => leaf_depths(Mem, root, 16) = last.depths
           /\ last.split.n > 1 =>
                /\ new_root.type = NODE
                /\ num_keys(new_root) = last.split.n
                /\ \A i \in 1..last.split.n :
                     /\ get_key(new_root, i - 1) = last.split.keys[i]
                     /\ IsBNode(page_get(Mem, get_ptr(new_root, i - 1)))
                     /\ get_key(page_get(Mem, get_ptr(new_root, i - 1)), 0)
                          = last.split.keys[i]
                /\ leaf_depths(Mem, root, 16) = Taller(last.depths)

C29_Witness ==
    /\ RootRebuilt
    /\ last.split.n = 3
    /\ last.depths = {1}
    /\ leaf_depths(Mem, root, 16) = {2}

C29_Witness2 ==
    /\ RootRebuilt
    /\ last.split.n = 2
    /\ last.depths = {2}

C29_Witness1 ==
    /\ RootRebuilt
    /\ last.split.n = 1
    /\ last.depths = {2}

-----------------------------------------------------------------------------
\* The root after a delete.

\* The last call was a delete that removed a key.
Deleted ==
    /\ last.op = "delete"
    /\ ~last.panic
    /\ last.ret

OneKid(node) == IsBNode(node) /\ node.type = NODE /\ num_keys(node) = 1

\* C30: after a delete that removed a key the root is not an internal node
\* of one kid; when tree_delete hands back a root of one kid, the page of
\* that kid is the root and every page the call wrote is a page of the tree.
C30_RootCollapsed ==
    Deleted =>
        /\ ~OneKid(page_get(Mem, root))
        /\ last.rebuilt.some
        /\ (last.rebuilt.type = NODE /\ last.rebuilt.nkeys = 1) =>
             /\ root = last.rebuilt.ptr
             /\ last.effects.alloc \subseteq last.effects.new_tree
             /\ Taller(leaf_depths(Mem, root, 16)) = last.depths

C30_Witness ==
    /\ Deleted
    /\ last.rebuilt.type = NODE
    /\ last.rebuilt.nkeys = 1
    /\ last.depths = {3}
    /\ root = last.rebuilt.ptr

-----------------------------------------------------------------------------
\* The tree without a user key.

\* The last call was the delete of the one user key the tree held.
LastKeyDeleted ==
    /\ Deleted
    /\ last.before = {last.key}

\* The last call was an insert_exec into a tree that held no user key.
InsertedIntoEmpty ==
    /\ last.op = "insert"
    /\ ~last.panic
    /\ last.root_before # 0
    /\ last.before = {}

\* The tree is one leaf that holds the sentinel and keys.
OneLeaf(keys) ==
    /\ root # 0
    /\ IsBNode(page_get(Mem, root))
    /\ page_get(Mem, root).type = LEAF
    /\ TreePages = {root}
    /\ stored_keys(Mem, root) = keys
    /\ num_keys(page_get(Mem, root)) = 1 + Cardinality(keys)
    /\ get_key(page_get(Mem, root), 0) = << >>

RebuiltOneLevel ==
    InsertedIntoEmpty =>
        /\ last.ret
        /\ OneLeaf({last.key})
        /\ get_value(Mem, root, last.key).found
        /\ get_value(Mem, root, last.key).val = last.val

\* C31: after the delete of the last user key the root is stored as an
\* internal node of 0 keys, and an insert into that tree succeeds and
\* leaves a tree of one level that holds the inserted key.
C31_EmptyNode ==
    /\ LastKeyDeleted =>
         /\ IsBNode(page_get(Mem, root))
         /\ page_get(Mem, root).type = NODE
         /\ num_keys(page_get(Mem, root)) = 0
    /\ RebuiltOneLevel

\* C31, as the code has it: after the delete of the last user key the root
\* is stored as a leaf that holds the sentinel alone, and an insert into
\* that tree succeeds and leaves a tree of one level that holds the
\* inserted key.
C31_SentinelLeaf ==
    /\ LastKeyDeleted => OneLeaf({})
    /\ RebuiltOneLevel

C31_Witness ==
    /\ InsertedIntoEmpty
    /\ last.ret
    /\ last.depths = {1}
    /\ ops >= 3
    /\ OneLeaf({last.key})

C31_WitnessDelete == LastKeyDeleted /\ OneLeaf({}) /\ last.depths = {1}

-----------------------------------------------------------------------------
\* The free list under its own calls, as test_fl_full_node drives it:
\* page_new of an empty leaf, page_del of a page that is in use, and
\* flush_pages.  last.used holds the pages handed out and not freed since.

MaxFLOps == 7

\* What page_new is about to do on M: [reuse, got, high].
page_new_plan(M) ==
    [reuse |-> total_ok(M) /\ M.nfree < total(M),
     got |-> get(M, M.nfree),
     high |-> M.flushed + M.nappend]

FLCall(M, record) ==
    /\ IF M.panic
       THEN Gone(M.pages) /\ pc' = "panicked"
       ELSE Store(M) /\ root' = root /\ pc' = "idle"
    /\ last' = record
    /\ ops' = ops + 1
    /\ UNCHANGED << boot, result, pre, log, reference, committed, faults, iter >>

\* KV::open on a file that does not exist yet, no page handed out.
InitFL ==
    /\ pages = << >>
    /\ updates = << >>
    /\ nfree = 0
    /\ nappend = 0
    /\ flushed = 1
    /\ head = 0
    /\ root = 0
    /\ pc = "idle"
    /\ boot = "fresh"
    /\ result = "none"
    /\ pre = [root |-> 0, head |-> 0]
    /\ log = << >>
    /\ reference = << >>
    /\ committed = << >>
    /\ ops = 0
    /\ faults = 0
    /\ last = [op |-> "open", used |-> {}, panic |-> FALSE]
    /\ iter = NoIter

PageNew ==
    /\ pc = "idle"
    /\ ops < MaxFLOps
    /\ \E r \in {page_new(Mem, new(LEAF, 0))} :
         FLCall(r.M, [op |-> "page_new", ptr |-> r.ptr, panic |-> r.M.panic,
                      used |-> last.used \cup {r.ptr},
                      held |-> r.ptr \in last.used,
                      hosts |-> r.ptr \in Range(chain(Mem, head, 16)),
                      plan |-> page_new_plan(Mem),
                      nfree |-> nfree, nappend |-> nappend])

PageDel(ptr) ==
    /\ pc = "idle"
    /\ ops < MaxFLOps
    /\ ptr \in last.used
    /\ FLCall(page_del(Mem, ptr),
              [op |-> "page_del", ptr |-> ptr, panic |-> FALSE,
               used |-> last.used \ {ptr}])

\* flush_pages with every step succeeding; the record keeps what update was
\* called with and what the list held.
Commit ==
    /\ pc = "idle"
    /\ ops < MaxFLOps
    /\ \E freed_ptrs \in Orders(get_freed_ptrs(Mem), TRUE) :
         \E M \in {flush_pages(Mem, root, freed_ptrs)} :
           FLCall(M, [op |-> "commit", panic |-> M.panic, used |-> last.used,
                      plan |-> update_plan(Mem)])

NextFL ==
    \/ PageNew
    \/ \E ptr \in last.used : PageDel(ptr)
    \/ Commit

SpecFL == InitFL /\ [][NextFL]_vars

\* The last call was a page_new, or a flush_pages, that returned.
Allocated == last.op = "page_new" /\ ~last.panic
Committed == last.op = "commit" /\ ~last.panic

\* update has run in the commit of a set or a del.
Updated == pc = "flush1"

PoppedRemoved(plan) ==
    /\ plan.popped \cap ListEntries = {}
    /\ \A ptr \in plan.entries \ plan.popped : ptr \in ListEntries \cup ListNodes

\* C32: update(popn, freed_ptrs) takes off the list the pointers get(0) ..
\* get(popn - 1) returned before it, and nothing else: none of them is an
\* entry afterwards, and every other entry of before is an entry afterwards
\* or the page of a node of the new list.
C32_PoppedRemoved ==
    /\ Committed => PoppedRemoved(last.plan)
    /\ Updated => PoppedRemoved(pre.plan)

\* C33: page_new never returns page 0, a page handed out before and not
\* freed since, or a page that hosts a node of the free list; page_append
\* never gives a node of the list page 0 or a page in use.
C33_FreshPages ==
    /\ Allocated =>
         /\ last.ptr # 0
         /\ ~last.held
         /\ ~last.hosts
    /\ Committed =>
         /\ 0 \notin ListNodes
         /\ ListNodes \cap last.used = {}

\* C34: page_new returns get(nfree) and increments nfree when nfree <
\* total(), otherwise it returns flushed + nappend and increments nappend;
\* either way the node is staged in updates under the page returned.
C34_ReuseFirst ==
    Allocated =>
        /\ IF last.plan.reuse
           THEN /\ last.plan.got.ok
                /\ last.ptr = last.plan.got.ptr
                /\ nfree = last.nfree + 1
                /\ nappend = last.nappend
           ELSE /\ last.ptr = last.plan.high
                /\ nappend = last.nappend + 1
                /\ nfree = last.nfree
        /\ last.ptr \in DOMAIN updates
        /\ updates[last.ptr] = get_data(new(LEAF, 0))

C34_Witness ==
    /\ Allocated
    /\ last.plan.reuse
    /\ last.nfree = 1
    /\ last.ptr < last.plan.high

C34_WitnessAppend ==
    /\ Allocated
    /\ ~last.plan.reuse
    /\ last.nfree = 1
    /\ head # 0

NewTotal(plan) ==
    (plan.popn > 0 \/ plan.freed # {}) =>
        /\ total_ok(Mem)
        /\ total(Mem) = plan.total - plan.popn + Cardinality(plan.freed)

\* C36: after update(popn, freed_ptrs) the total field of the head node is
\* total() of before - popn + the number of pointers in freed_ptrs.
C36_NewTotal ==
    /\ Committed => NewTotal(last.plan)
    /\ Updated => NewTotal(pre.plan)

\* The old nodes update discarded, and the pointers they held.
Discarded(plan) == plan.nodes \ ListNodes
DiscardedEntries(plan) == UNION {plan.held[at] : at \in Discarded(plan)}

\* The pointers of discarded nodes that update put back on the list.
PutBack(plan) == (DiscardedEntries(plan) \cap ListEntries) \ plan.freed

TotalKept(plan) ==
    (plan.popn > 0 \/ plan.freed # {}) =>
        /\ total_ok(Mem)
        /\ total(Mem) = plan.total - Cardinality(DiscardedEntries(plan))
                          + Cardinality(plan.freed)
                          + Cardinality(Discarded(plan))
                          + Cardinality(PutBack(plan))

\* C36, as the code has it: after update(popn, freed_ptrs) the total field
\* of the head node is total() of before, less the sizes of the old nodes
\* update discarded, plus the number of pointers in freed_ptrs, plus one
\* for the page of every discarded node, plus the pointers of discarded
\* nodes that it put back on the list.
C36_TotalKept ==
    /\ Committed => TotalKept(last.plan)
    /\ Updated => TotalKept(pre.plan)

C36_Witness ==
    /\ Committed
    /\ last.plan.popn = 1
    /\ last.plan.total = 1
    /\ Cardinality(last.plan.freed) = 1
    /\ last.plan.freed \cap last.plan.popped = {}
    /\ Cardinality(Discarded(last.plan)) = 1
    /\ total(Mem) = 2

\* The assertions of update and push hold for the call flush_pages is about
\* to make, whatever order get_freed_ptrs returns.
UpdateAsserts(M) ==
    /\ total_ok(M)
    /\ M.nfree <= total(M)
    /\ \A freed_ptrs \in Perms(get_freed_ptrs(M)) :
         LET W == update_loop(M, [head |-> M.head, popn |-> M.nfree,
                                  freed |-> freed_ptrs, reuse |-> << >>,
                                  total |-> total(M), panic |-> FALSE])
         IN /\ ~W.panic
            /\ Len(W.reuse) * MAX_FREE_LIST_IN_PAGE >= Len(W.freed) \/ W.head = 0
            /\ ~push([M EXCEPT !.head = W.head], W.freed, W.reuse).panic
            /\ ~update(M, M.nfree, freed_ptrs).panic

\* get walks the chain to every entry it may be asked for.
GetAsserts(M) ==
    /\ total_ok(M)
    /\ \A topn \in 0..(total(M) - 1) : get(M, topn).ok

\* C35: in the commits that set and del drive, no assertion of the free
\* list fails: popn <= total() on entry to update, next # 0 while get walks
\* the chain, the reuse capacity after the walk of update, and reuse empty
\* at the end of push.
C35_NoAssert ==
    /\ pc = "write_pages" => UpdateAsserts(Mem)
    /\ pc \in {"idle", "write_pages"} => GetAsserts(Mem)
    /\ pc # "panicked"

C35_Witness ==
    /\ pc = "write_pages"
    /\ nfree >= 2
    /\ total(Mem) >= 3
    /\ Cardinality(get_freed_ptrs(Mem)) >= 2

\* The pages of the file behind the master page.
FilePages == 1..(flushed - 1)

\* C39: after every committed set or del every page in [1, total_pages) is
\* a page of the tree, or a page of a node of the free list, or an entry of
\* the free list, and is only one of the three.
C39_Partition ==
    (pc = "idle" /\ result = "ok") =>
        /\ FilePages = TreePages \cup ListNodes \cup ListEntries
        /\ TreePages \cap ListNodes = {}
        /\ TreePages \cap ListEntries = {}
        /\ ListNodes \cap ListEntries = {}
        /\ NoRepeat(chain(Mem, head, 16))
        /\ total_ok(Mem) /\ total(Mem) = Cardinality(ListEntries)

C39_Witness ==
    /\ pc = "idle" /\ result = "ok"
    /\ Cardinality(TreePages) >= 3
    /\ Cardinality(ListNodes) >= 1
    /\ Cardinality(ListEntries) >= 4
    /\ ops >= 3

-----------------------------------------------------------------------------
\* The free list around a full node: the store after page_new of
\* FullList + KeptPages empty leaves and a commit, then page_del of the
\* first FullList of them and a commit.

FullList == MAX_FREE_LIST_IN_PAGE
KeptPages == 3

\* n calls of page_new on a store whose free list is empty: each appends a
\* page at flushed + nappend.
new_pages(M, n) ==
    LET high == M.flushed + M.nappend
    IN [M EXCEPT !.updates = [ptr \in DOMAIN M.updates \cup high..(high + n - 1) |->
                                IF ptr >= high THEN get_data(new(LEAF, 0))
                                ELSE M.updates[ptr]],
                 !.nappend = M.nappend + n]

\* page_del of every page of S.
del_pages(M, S) ==
    [M EXCEPT !.updates = [ptr \in DOMAIN M.updates \cup S |->
                             IF ptr \in S THEN NonePage ELSE M.updates[ptr]]]

filled(n_free, n_kept) ==
    With(flush_pages(new_pages(opened(<< >>), n_free + n_kept), 0, << >>), LAMBDA M :
      flush_pages(del_pages(M, 1..n_free), 0, [i \in 1..n_free |-> i]))

InitFull ==
    /\ \E M \in {filled(FullList, KeptPages)} :
         /\ pages = M.pages
         /\ updates = M.updates
         /\ nfree = M.nfree
         /\ nappend = M.nappend
         /\ flushed = M.flushed
         /\ head = M.head
    /\ root = 0
    /\ pc = "idle"
    /\ boot = "fresh"
    /\ result = "none"
    /\ pre = [root |-> 0, head |-> 0]
    /\ log = << >>
    /\ reference = << >>
    /\ committed = << >>
    /\ ops = 0
    /\ faults = 0
    /\ last = [op |-> "open", panic |-> FALSE,
               used |-> (FullList + 1)..(FullList + KeptPages)]
    /\ iter = NoIter

SpecFull == InitFull /\ [][NextFL]_vars

\* The sizes of the nodes of the list, from the head.
NodeSizes == chain_sizes(Mem, head)

\* The pages that are free once the commit recorded in plan is done, the
\* pages of the old nodes included.
StillFree(plan) == ((plan.entries \ plan.popped) \cup plan.freed) \cup plan.nodes

\* C37: no node of the free list holds more than 509 pointers; a list of
\* exactly 509 entries is one node; freeing one more page makes it two
\* nodes under a new head; and when entries are consumed until what is
\* free fits one node again, the list is one node.
C37_FullNode ==
    /\ \A i \in 1..Len(NodeSizes) : NodeSizes[i] <= MAX_FREE_LIST_IN_PAGE
    /\ (pc = "idle" /\ total_ok(Mem) /\ total(Mem) = MAX_FREE_LIST_IN_PAGE) =>
         Len(NodeSizes) = 1
    /\ (Committed /\ last.plan.total = MAX_FREE_LIST_IN_PAGE /\ last.plan.popn = 0
          /\ Cardinality(last.plan.freed) = 1) =>
         /\ Len(NodeSizes) = 2
         /\ head \notin last.plan.nodes
         /\ total(Mem) = MAX_FREE_LIST_IN_PAGE + 1
    /\ (Committed /\ Cardinality(last.plan.nodes) = 2 /\ last.plan.popn > 0
          /\ Cardinality(StillFree(last.plan)) - 1 <= MAX_FREE_LIST_IN_PAGE) =>
         Len(NodeSizes) = 1

\* The last part of C37 in the commits that also free a page: there update
\* walks the list and the list is rebuilt as one node.
C37_OneNodeWhenFreeing ==
    (Committed /\ Cardinality(last.plan.nodes) = 2 /\ last.plan.popn > 0
          /\ Cardinality(StillFree(last.plan)) - 1 <= MAX_FREE_LIST_IN_PAGE
          /\ last.plan.freed # {}) =>
         Len(NodeSizes) = 1

C37_WitnessFreeing ==
    /\ Committed /\ Cardinality(last.plan.nodes) = 2 /\ last.plan.popn > 0
    /\ Cardinality(StillFree(last.plan)) - 1 <= MAX_FREE_LIST_IN_PAGE
    /\ last.plan.freed # {}
    /\ Len(NodeSizes) = 1


-----------------------------------------------------------------------------
\* node_lookup_le on its own: a node of 1 .. MaxLookupKeys keys in
\* ascending order, built as test_bnode_node_lookup_le builds it, and a key
\* to look up.

MaxLookupKeys == 5

\* The keys of the nodes, in ascending order.
LookupKeys ==
    << << >>, Rep(0, 1), Rep(1, 1), Rep(2, 1), Rep(2, 2), Rep(3, 1), Rep(4, 1) >>

\* The keys looked up: those of the nodes and two above all of them.
LookupProbes == Range(LookupKeys) \cup {Rep(5, 1), Rep(6, 1)}

\* The nodes: key i is LookupKeys[at[i]] for a non-decreasing at.
LookupNodes ==
    UNION {{built(NODE, [i \in 1..n |-> << LookupKeys[at[i]], << >> >>]) :
              at \in {f \in [1..n -> 1..Len(LookupKeys)] :
                        \A i \in 1..(n - 1) : f[i] <= f[i + 1]}} :
           n \in 1..MaxLookupKeys}

\* The indices the loop of node_lookup_le compares, in order; the walk is
\* cut after `fuel` rounds and then ends with -1.
RECURSIVE lookup_mids(_, _, _, _, _)
lookup_mids(node, key, low, high, fuel) ==
    IF low > high THEN << >>
    ELSE IF fuel = 0 THEN << -1 >>
    ELSE LET mid == (low + high) \div 2
         IN << mid >> \o
            (IF BCmp(get_key(node, mid), key) <= 0
             THEN lookup_mids(node, key, mid + 1, high, fuel - 1)
             ELSE lookup_mids(node, key, low, Max(mid - 1, 0), fuel - 1))

InitLookup ==
    /\ pages = << >>
    /\ updates = << >>
    /\ nfree = 0
    /\ nappend = 0
    /\ flushed = 1
    /\ head = 0
    /\ root = 0
    /\ pc = "idle"
    /\ boot = "fresh"
    /\ result = "none"
    /\ pre = [root |-> 0, head |-> 0]
    /\ log = << >>
    /\ reference = << >>
    /\ committed = << >>
    /\ ops = 0
    /\ faults = 0
    /\ \E node \in LookupNodes : \E key \in LookupProbes :
         last = [op |-> "node", node |-> node, key |-> key]
    /\ iter = NoIter

LookupLe ==
    /\ last.op = "node"
    /\ lookup_ok(last.node)
    /\ last' = [op |-> "lookup", node |-> last.node, key |-> last.key,
                idx |-> node_lookup_le(last.node, last.key),
                mids |-> lookup_mids(last.node, last.key, 1,
                                     num_keys(last.node) - 1, num_keys(last.node))]
    /\ UNCHANGED << pages, updates, nfree, nappend, flushed, head, root, pc, boot,
                    result, pre, log, reference, committed, ops, faults, iter >>

NextLookup == LookupLe

SpecLookup == InitLookup /\ [][NextLookup]_vars

\* The indices from 1 whose key is not above `key`.
NotAbove(node, key) ==
    {i \in 1..(num_keys(node) - 1) : BCmp(get_key(node, i), key) <= 0}

\* C38: on a node of at least one key with its keys in ascending order
\* node_lookup_le(key) is the largest index from 1 whose key is <= key,
\* and 0 when there is none; the key at index 0 is never compared; and the
\* search ends, in fewer rounds than the node has keys.
C38_LookupLe ==
    last.op = "lookup" =>
        /\ \A i \in NotAbove(last.node, last.key) : i <= last.idx
        /\ last.idx \in NotAbove(last.node, last.key) \cup {0}
        /\ NotAbove(last.node, last.key) = {} => last.idx = 0
        /\ \A n \in 1..Len(last.mids) :
             last.mids[n] >= 1 /\ last.mids[n] < num_keys(last.node)
        /\ Len(last.mids) < Max(num_keys(last.node), 2)

\* The lookups of test_bnode_node_lookup_le: keys [0] .. [4], and the key
\* [2] found at index 2.
C38_Witness ==
    /\ last.op = "lookup"
    /\ num_keys(last.node) = 5
    /\ \A i \in 0..4 : get_key(last.node, i) = Rep(i, 1)
    /\ last.key = Rep(2, 1)
    /\ last.idx = 2
    /\ Len(last.mids) >= 2

\* The key below every key from index 1: the answer is 0.
C38_WitnessNone ==
    /\ last.op = "lookup"
    /\ num_keys(last.node) = 5
    /\ BCmp(get_key(last.node, 0), last.key) > 0
    /\ last.idx = 0
    /\ Len(last.mids) >= 2


-----------------------------------------------------------------------------
\* The key encoding of the relational layer (relational_db/mod.rs).  An i64
\* is held as [hi, lo]: hi the top 16 bits as a signed number, lo the three
\* 16-bit limbs below it, most significant first, so that the value is
\* hi * 2^48 + lo[1] * 2^32 + lo[2] * 2^16 + lo[3].

LIMB == 65536

I64(hi, l2, l1, l0) == [hi |-> hi, lo |-> <<l2, l1, l0>>]

MinInt64 == I64(-32768, 0, 0, 0)
MaxInt64 == I64(32767, LIMB - 1, LIMB - 1, LIMB - 1)

\* a < b as 64-bit signed integers.
i64_lt(a, b) ==
    \/ a.hi < b.hi
    \/ /\ a.hi = b.hi
       /\ \E n \in 1..3 : /\ a.lo[n] < b.lo[n]
                           /\ \A m \in 1..(n - 1) : a.lo[m] = b.lo[m]

\* BigEndian::write_i64: the 8 bytes of the two's complement of i, most
\* significant first.
write_i64(i) ==
    LET top == i.hi % LIMB
    IN << top \div 256, top % 256,
          i.lo[1] \div 256, i.lo[1] % 256,
          i.lo[2] \div 256, i.lo[2] % 256,
          i.lo[3] \div 256, i.lo[3] % 256 >>

\* out.extend(buf)
RECURSIVE extend(_, _)
extend(out, buf) ==
    IF buf = << >> THEN out
    ELSE extend(BCat(out, Rep(Head(buf), 1)), Tail(buf))

\* encode_values over Int64 values.
RECURSIVE encode_values(_, _)
encode_values(out, values) ==
    IF values = << >> THEN out
    ELSE encode_values(extend(out, write_i64(Head(values))), Tail(values))

\* The integers of the encoding test, and some around the byte and limb
\* borders.
I64Samples ==
    {MinInt64, MaxInt64,
     I64(-1, LIMB - 1, LIMB - 1, LIMB - 1),      \* -1
     I64(-1, LIMB - 1, LIMB - 1, LIMB - 2),      \* -2
     I64(-1, LIMB - 1, LIMB - 1, LIMB - 256),    \* -256
     I64(-1, LIMB - 1, LIMB - 2, 0),             \* -131072
     I64(-32768, 0, 0, 1),                       \* MinInt64 + 1
     I64(0, 0, 0, 0), I64(0, 0, 0, 1), I64(0, 0, 0, 255), I64(0, 0, 0, 256),
     I64(0, 0, 1, 0), I64(0, 1, 0, 0), I64(1, 0, 0, 0)}

InitEncode ==
    /\ pages = << >>
    /\ updates = << >>
    /\ nfree = 0
    /\ nappend = 0
    /\ flushed = 1
    /\ head = 0
    /\ root = 0
    /\ pc = "idle"
    /\ boot = "fresh"
    /\ result = "none"
    /\ pre = [root |-> 0, head |-> 0]
    /\ log = << >>
    /\ reference = << >>
    /\ committed = << >>
    /\ ops = 0
    /\ faults = 0
    /\ \E a \in I64Samples : \E b \in I64Samples :
         last = [op |-> "values", a |-> a, b |-> b]
    /\ iter = NoIter

EncodeValues ==
    /\ last.op = "values"
    /\ last' = [op |-> "encoded", a |-> last.a, b |-> last.b,
                ea |-> encode_values(<< >>, << last.a >>),
                eb |-> encode_values(<< >>, << last.b >>)]
    /\ UNCHANGED << pages, updates, nfree, nappend, flushed, head, root, pc, boot,
                    result, pre, log, reference, committed, ops, faults, iter >>

NextEncode == EncodeValues

SpecEncode == InitEncode /\ [][NextEncode]_vars

\* C40: for 64-bit signed integers a < b, negative ones included, the
\* bytes encode_values gives for Int64(a) are lexicographically below those
\* it gives for Int64(b).
C40_OrderKept ==
    (last.op = "encoded" /\ i64_lt(last.a, last.b)) =>
        BCmp(last.ea, last.eb) < 0

\* The same for two integers of one sign, where the plain two's complement
\* bytes do keep the order; and the encodings are 8 bytes and differ.
C40_OrderKeptSameSign ==
    (last.op = "encoded" /\ i64_lt(last.a, last.b)
       /\ ((last.a.hi < 0) <=> (last.b.hi < 0))) =>
        /\ BCmp(last.ea, last.eb) < 0
        /\ BLen(last.ea) = 8 /\ BLen(last.eb) = 8

\* A negative a and a non-negative b: the encoding of a sorts above.
C40_SignsSwapped ==
    (last.op = "encoded" /\ last.a.hi < 0 /\ last.b.hi >= 0) =>
        BCmp(last.ea, last.eb) > 0

C40_WitnessSigns ==
    /\ last.op = "encoded"
    /\ last.a = MinInt64
    /\ last.b = MaxInt64
    /\ last.ea = BCat(Rep(128, 1), Rep(0, 7))
    /\ last.eb = BCat(Rep(127, 1), Rep(255, 7))

=============================================================================
